---- MODULE Spec2Model ----
(***************************************************************************)
(* brain-graph: retrieval and embedding subsystem.                         *)
(*                                                                         *)
(* Text is modelled as a sequence of one-character strings.  A float is    *)
(* modelled as an integer number of 10^-7 units, so that the six-decimal   *)
(* vector literal is a real rounding and not the identity.  NULL / None    *)
(* is the record None, a present value x is Some(x).                       *)
(***************************************************************************)
EXTENDS Integers, Sequences, FiniteSets, TLC

VARIABLES
    nodes,              \* table nodes: rows id, type, title, text_content
    embedding_models,   \* table embedding_models (the model registry)
    node_embeddings,    \* table node_embeddings: the stored embedding records
    clock,              \* NOW() of the store, one tick per committed write
    hnsw_indexes,       \* whether create_hnsw_indexes() has built the indexes
    call,               \* per request handler: the embedding request it serves
    search,             \* the search request being served
    access_count,       \* per node: the accesses track_node_access has recorded
    fetch,              \* the node request (GET / PATCH / DELETE /nodes/{id}) being served
    helper              \* the pure helper being applied: its inputs and its results

vars == <<nodes, embedding_models, node_embeddings, clock, hnsw_indexes, call, search, access_count, fetch, helper>>

----------------------------------------------------------------------------
(* Bounds of the model *)

\* committed writes after which no further write is started
MaxWrites == 3

\* recorded accesses after which no further search is started, and recorded
\* accesses of one node after which it is no longer fetched
MaxAccess == 1

\* length of the longest text given to a pure helper
MaxLen == 2

\* largest dimension given to the deterministic embedder
MaxDim == 3

----------------------------------------------------------------------------
(* Values *)

None == [none |-> TRUE]
Some(x) == [none |-> FALSE, val |-> x]

\* Python truthiness of an Optional[int]: None and 0 are falsy
TruthyInt(o) == (~o.none) /\ o.val # 0

\* Python truthiness of an Optional[str] / Optional[list]: None and empty are falsy
TruthySeq(o) == (~o.none) /\ Len(o.val) > 0

\* the request handlers that may run concurrently (one pooled connection each)
Procs == {"w1", "w2"}

\* the characters of a name
Chars(s) ==
    CASE s = "jina" -> <<"j">>
      [] s = "siglip" -> <<"s">>
      [] s = "old" -> <<"o">>
      [] s = "base" -> <<"e">>
      [] s = "full" -> <<"f">>
      [] s = "title" -> <<"t">>
      [] s = "j|s" -> <<"j", "|", "s">>
      [] OTHER -> <<"?">>

CharCode(c) ==
    CASE c = "a" -> 97
      [] c = "b" -> 98
      [] c = " " -> 32
      [] OTHER -> 63

\* str(v) of a float v
StrFloat(v) ==
    CASE v = 0 -> "0.0"
      [] v = 4 -> "4e-07"
      [] v = 16 -> "1.6e-06"
      [] OTHER -> "x"

RECURSIVE Join(_, _)
\* sep.join(parts) on sequences of character sequences
Join(parts, sep) ==
    IF Len(parts) = 0 THEN <<>>
    ELSE IF Len(parts) = 1 THEN parts[1]
    ELSE parts[1] \o sep \o Join(Tail(parts), sep)

RECURSIVE LStrip(_)
LStrip(s) == IF Len(s) > 0 /\ s[1] = " " THEN LStrip(Tail(s)) ELSE s

RECURSIVE RStrip(_)
RStrip(s) ==
    IF Len(s) > 0 /\ s[Len(s)] = " " THEN RStrip(SubSeq(s, 1, Len(s) - 1)) ELSE s

\* str.strip()
Strip(s) == RStrip(LStrip(s))

----------------------------------------------------------------------------
(* Pure helpers of embedding_service.py *)

\* f"{v:.6f}": the value rounded to a multiple of 10^-6
Round6(v) == IF v % 10 >= 5 THEN ((v \div 10) + 1) * 10 ELSE (v \div 10) * 10

\* the pgvector literal, as the sequence of its six-decimal components
_vector_literal(values) == [i \in 1..Len(values) |-> Round6(values[i])]

\* mutant of _hash_content: the content role is left out of the digest input
hash_content_without_role(content, model_name, source_part) ==
    content \o <<"|">> \o Chars(model_name)

\* the input of the digest; the digest itself is taken to be injective
_hash_content(content, model_name, source_part) ==
    content \o <<"|">> \o Chars(model_name) \o <<"|">> \o Chars(source_part)

RECURSIVE Mix(_, _)
\* stand-in for the leading word of a SHA-256 digest of a byte string
Mix(h, bytes) ==
    IF Len(bytes) = 0 THEN h
    ELSE Mix((h * 31 + bytes[1]) % 65536, Tail(bytes))

_deterministic_embedding(content, dimension) ==
    LET base == Mix(7, [k \in 1..Len(content) |-> CharCode(content[k])])
    IN [i \in 1..dimension |->
            LET int_val == Mix(base, <<0, 0, 0, i - 1>>)
            IN ((int_val % 2000) - 1000) * 10000]

----------------------------------------------------------------------------
(* Pure helpers of search.py *)

\* mutant of search_deterministic_embedding: the shift by -1.0 is left out
search_deterministic_embedding_unshifted(text, dimension) ==
    LET base == Mix(7, [k \in 1..Len(text) |-> CharCode(text[k])])
    IN [i \in 1..dimension |->
            LET int_val == Mix(base, <<0, 0, 0, i - 1>>)
            IN (int_val % 2000) * 10000]

\* _deterministic_embedding of search.py, the copy the search handler calls
search_deterministic_embedding(text, dimension) ==
    LET base == Mix(7, [k \in 1..Len(text) |-> CharCode(text[k])])
    IN [i \in 1..dimension |->
            LET int_val == Mix(base, <<0, 0, 0, i - 1>>)
            IN ((int_val % 2000) - 1000) * 10000]

----------------------------------------------------------------------------
(* The embedding store: table node_embeddings and its upsert *)

\* the columns of the ON CONFLICT target
KeyOf(r) == <<r.node_id, r.chunk_id, r.modality, r.model_name, r.source_part>>

\* the unique index over the key columns arbitrates the conflict: a row and a
\* proposed row conflict when they agree on all five key columns
unique_key_matches(r, a) == KeyOf(r) = KeyOf(a)

\* mutant of COALESCE: the new value always wins, NULL included
CoalesceTakesNew(x, y) == x

\* SQL COALESCE(x, y)
COALESCE(x, y) == IF x.none THEN y ELSE x

\* INSERT ... VALUES: the row a write creates (id and timestamps from the store)
InsertRow(a, id, now) ==
    [id |-> id,
     node_id |-> a.node_id,
     chunk_id |-> a.chunk_id,
     modality |-> a.modality,
     model_name |-> a.model_name,
     source_part |-> a.source_part,
     dimension |-> a.dimension,
     embedding |-> _vector_literal(a.embedding),
     content_hash |-> a.content_hash,
     generation_time_ms |-> a.generation_time_ms,
     token_count |-> a.token_count,
     generated_at |-> now,
     last_accessed |-> now]

\* mutant of UpdateRow: generated_at is left out of the SET list
UpdateRowKeepsGeneratedAt(r, a, now) ==
    [r EXCEPT !.embedding = _vector_literal(a.embedding),
              !.content_hash = a.content_hash,
              !.last_accessed = now,
              !.dimension = a.dimension,
              !.generation_time_ms = COALESCE(a.generation_time_ms, r.generation_time_ms),
              !.token_count = COALESCE(a.token_count, r.token_count)]

\* DO UPDATE SET ...: the existing row r after a conflicting write a
UpdateRow(r, a, now) ==
    [r EXCEPT !.embedding = _vector_literal(a.embedding),
              !.content_hash = a.content_hash,
              !.generated_at = now,
              !.last_accessed = now,
              !.dimension = a.dimension,
              !.generation_time_ms = COALESCE(a.generation_time_ms, r.generation_time_ms),
              !.token_count = COALESCE(a.token_count, r.token_count)]

\* mutant of Upsert: a plain INSERT without the ON CONFLICT clause
InsertOnly(rows, a, id, now) == rows \cup {InsertRow(a, id, now)}

\* INSERT ... ON CONFLICT (key) DO UPDATE: the table after the statement
Upsert(rows, a, id, now) ==
    IF \E r \in rows : unique_key_matches(r, a)
    THEN {IF unique_key_matches(r, a) THEN UpdateRow(r, a, now) ELSE r : r \in rows}
    ELSE rows \cup {InsertRow(a, id, now)}

\* the row the statement inserted or updated, which RETURNING reports
Affected(rows, a, id, now) ==
    IF \E r \in rows : unique_key_matches(r, a)
    THEN UpdateRow(CHOOSE r \in rows : unique_key_matches(r, a), a, now)
    ELSE InsertRow(a, id, now)

\* RETURNING id, node_id, chunk_id, modality, model_name, source_part, dimension, generated_at
Returning(r) ==
    [id |-> r.id,
     node_id |-> r.node_id,
     chunk_id |-> r.chunk_id,
     modality |-> r.modality,
     model_name |-> r.model_name,
     source_part |-> r.source_part,
     dimension |-> r.dimension,
     generated_at |-> r.generated_at]

\* mutant of StoreArgs: a missing dimension is passed on as 0 instead of len(embedding)
StoreArgsNoDefault(node_id, modality, model_name, source_part, embedding, content_hash, dimension, chunk_id, generation_time_ms, token_count) ==
    [node_id |-> node_id,
     chunk_id |-> chunk_id,
     modality |-> modality,
     model_name |-> model_name,
     source_part |-> source_part,
     dimension |-> IF dimension.none THEN 0 ELSE dimension.val,
     embedding |-> embedding,
     content_hash |-> content_hash,
     generation_time_ms |-> generation_time_ms,
     token_count |-> token_count]

\* the arguments store_embedding hands to the INSERT; dimension = dimension or len(embedding)
StoreArgs(node_id, modality, model_name, source_part, embedding, content_hash, dimension, chunk_id, generation_time_ms, token_count) ==
    [node_id |-> node_id,
     chunk_id |-> chunk_id,
     modality |-> modality,
     model_name |-> model_name,
     source_part |-> source_part,
     dimension |-> IF TruthyInt(dimension) THEN dimension.val ELSE Len(embedding),
     embedding |-> embedding,
     content_hash |-> content_hash,
     generation_time_ms |-> generation_time_ms,
     token_count |-> token_count]

----------------------------------------------------------------------------
(* Responses *)

Ok(body) == [status |-> 200, detail |-> "", body |-> body]

\* HTTPException(status_code=400, detail=str(exc)) for a ValueError
Invalid(detail) == [status |-> 400, detail |-> detail, body |-> <<>>]

\* any other exception leaves the handler: 500
ServerError == [status |-> 500, detail |-> "Internal Server Error", body |-> <<>>]

NoResponse == [status |-> 0, detail |-> "", body |-> <<>>]

----------------------------------------------------------------------------
(* The registry and the category -> model mapping, as the store answers them *)

\* mutant of ActiveModel: the is_active condition is left out
RegisteredModel(model_name) ==
    {m \in embedding_models : m.model_name = model_name}

\* SELECT ... FROM embedding_models WHERE model_name = $1 AND is_active = TRUE
ActiveModel(model_name) ==
    {m \in embedding_models : m.model_name = model_name /\ m.is_active}

\* get_models_for_node(node_type): rows (model_name, source_part, priority)
get_models_for_node(node_type) ==
    IF node_type = "TextNode"
    THEN {[model_name |-> "jina", source_part |-> "full", priority |-> 1],
          [model_name |-> "siglip", source_part |-> "title", priority |-> 2],
          [model_name |-> "old", source_part |-> "full", priority |-> 3]}
    ELSE {}

\* one selected model as _select_models returns it
ModelRow(m, source_part, priority) ==
    [model_name |-> m.model_name,
     modality |-> m.modality,
     dimension |-> m.dimension,
     source_part |-> source_part,
     priority |-> priority]

RECURSIVE OrderByPriority(_)
\* ORDER BY gm.priority
OrderByPriority(rows) ==
    IF rows = {} THEN <<>>
    ELSE LET first == CHOOSE r \in rows : \A q \in rows : r.priority <= q.priority
         IN <<first>> \o OrderByPriority(rows \ {first})

\* get_models_for_node JOIN embedding_models WHERE em.is_active ORDER BY gm.priority
MappedModels(node_type) ==
    OrderByPriority(
        {ModelRow(m, gm.source_part, gm.priority) :
            <<gm, m>> \in {x \in get_models_for_node(node_type) \X embedding_models :
                             x[2].model_name = x[1].model_name /\ x[2].is_active}})

\* mutant of DefaultModel: ORDER BY added_at ascending, the oldest default wins
DefaultModelOldest ==
    LET defaults == {m \in embedding_models : m.is_default}
    IN IF defaults = {} THEN <<>>
       ELSE <<ModelRow(CHOOSE m \in defaults : \A q \in defaults : m.added_at <= q.added_at,
                       "full", 1)>>

\* WHERE is_default = TRUE ORDER BY added_at DESC NULLS LAST LIMIT 1
DefaultModel ==
    LET defaults == {m \in embedding_models : m.is_default}
    IN IF defaults = {} THEN <<>>
       ELSE <<ModelRow(CHOOSE m \in defaults : \A q \in defaults : q.added_at <= m.added_at,
                       "full", 1)>>

\* the position of a model name in ORDER BY model_name
NameRank(model_name) ==
    CASE model_name = "base" -> 1
      [] model_name = "jina" -> 2
      [] model_name = "old" -> 3
      [] model_name = "siglip" -> 4
      [] OTHER -> 5

\* ORDER BY is_default DESC, model_name: m comes no later than q
DefaultFirstThenName(m, q) ==
    \/ m.is_default /\ ~q.is_default
    \/ m.is_default = q.is_default /\ NameRank(m.model_name) <= NameRank(q.model_name)

RECURSIVE OrderByDefaultThenName(_)
OrderByDefaultThenName(rows) ==
    IF rows = {} THEN <<>>
    ELSE LET first == CHOOSE m \in rows : \A q \in rows : DefaultFirstThenName(m, q)
         IN <<first>> \o OrderByDefaultThenName(rows \ {first})

\* SELECT model_name, model_version, modality, dimension, is_active, is_default
\* FROM embedding_models ORDER BY is_default DESC, model_name
ListedModels ==
    OrderByDefaultThenName(
        {[model_name |-> m.model_name, modality |-> m.modality, dimension |-> m.dimension,
          is_active |-> m.is_active, is_default |-> m.is_default] : m \in embedding_models})

\* text_full = " ".join(part for part in [title, text_content] if part).strip()
TextFull(node) ==
    Strip(Join(<<>> \o (IF TruthySeq(node.title) THEN <<node.title.val>> ELSE <<>>)
                    \o (IF TruthySeq(node.text_content) THEN <<node.text_content.val>> ELSE <<>>),
               <<" ">>))

----------------------------------------------------------------------------
(* Embedding requests: POST /embeddings and POST /embeddings/generate *)

\* a handler that serves no request
IdleCall ==
    [op |-> "idle", pc |-> "idle",
     node_id |-> "", model_name |-> None,
     node |-> None, models |-> <<>>, i |-> 0, stored |-> <<>>,
     args |-> None, row |-> None,
     log |-> <<>>,
     response |-> NoResponse]

\* how an awaited statement may end: it answers, the store reports an error
\* (asyncpg.PostgresError), or command_timeout expires (asyncio.TimeoutError)
Outcomes == {"ok", "PostgresError", "TimeoutError"}

\* one statement the handler sent to the store, and how it ended
Stmt(name, exc) == [stmt |-> name, ok |-> exc = "ok", exc |-> exc]

\* what a caller of POST /embeddings may send:
\* <<chunk_id, embedding, content_hash, generation_time_ms, token_count>>
Payloads ==
    {<<None, <<16, 0>>, None, Some(5), None>>,
     <<None, <<16, 0>>, Some(<<"h">>), None, Some(7)>>,
     <<None, <<4>>, None, None, None>>,
     <<Some("c1"), <<16, 0>>, None, Some(5), Some(7)>>}

\* what a caller of POST /embeddings/generate may send
GenNodeIds == {"n1", "n2", "n3", "n4", "n9"}
GenModelNames == {None, Some(""), Some("jina"), Some("old"), Some("nope")}

\* the handler leaves with a response; its locals are gone
Finish(c, response) ==
    [c EXCEPT !.pc = "done", !.response = response, !.args = None, !.row = None, !.node = None]

\* payload.content_hash or sha256("|".join(str(v) for v in payload.embedding))
PayloadHash(content_hash, embedding) ==
    IF TruthySeq(content_hash) THEN content_hash.val
    ELSE Join([k \in 1..Len(embedding) |-> <<StrFloat(embedding[k])>>], <<"|">>)

\* mutant of RowsAfterFailedWrite: the failure undoes the rows this call wrote before
RowsRolledBack(rows, c) ==
    {r \in rows : \A k \in 1..Len(c.stored) : c.stored[k].id # r.id}

\* except Exception around the INSERT: raise ValueError, the table is left as it is
RowsAfterFailedWrite(rows, c) == rows

\* store_embedding, up to its second await: the INSERT ... ON CONFLICT DO UPDATE
\* ... RETURNING issued with arguments a by the handler p, whose record is c
store_embedding(p, c0, a) ==
    /\ clock < MaxWrites
    /\ \E exc \in Outcomes : LET ok == exc = "ok" IN
         LET c == [c0 EXCEPT !.log = Append(@, Stmt("insert", exc)), !.args = Some(a)]
             now == clock + 1
         IN IF ok
            THEN /\ node_embeddings' = Upsert(node_embeddings, a, now, now)
                 /\ clock' = now
                 /\ call' = [call EXCEPT ![p] =
                        [c EXCEPT !.pc = "ensure_index",
                                  !.row = Some(Returning(Affected(node_embeddings, a, now, now)))]]
            ELSE /\ node_embeddings' = RowsAfterFailedWrite(node_embeddings, c)
                 /\ clock' = clock
                 /\ call' = [call EXCEPT ![p] =
                        Finish(c, Invalid("Failed to store embedding; ensure pgvector is installed"))]
    /\ UNCHANGED <<helper, fetch, search, access_count, nodes, embedding_models, hnsw_indexes>>

\* POST /embeddings: the handler, up to the INSERT of store_embedding
create_embedding(p, payloads) ==
    /\ call[p].pc \in {"idle", "done"}
    /\ \E payload \in payloads :
         store_embedding(p,
            [IdleCall EXCEPT !.op = "create_embedding", !.node_id = "n1"],
            StoreArgs("n1", "text", "jina", "full", payload[2],
                      PayloadHash(payload[3], payload[2]),
                      None, payload[1], payload[4], payload[5]))

\* the content the i-th selected model embeds: the title or text_full
LoopContent(c) ==
    IF c.models[c.i].source_part = "title" THEN c.node.val.title ELSE Some(TextFull(c.node.val))

\* mutant of LoopArgs: the loop variable is not used, every write names the first model
LoopArgsFirstModel(c) ==
    LET model == c.models[1]
        content == LoopContent(c).val
    IN StoreArgs(c.node.val.id, model.modality, model.model_name, model.source_part,
                 _deterministic_embedding(content, model.dimension),
                 _hash_content(content, model.model_name, model.source_part),
                 Some(model.dimension), None, None, None)

\* the arguments of the store_embedding call of the i-th selected model
LoopArgs(c) ==
    LET model == c.models[c.i]
        content == LoopContent(c).val
    IN StoreArgs(c.node.val.id, model.modality, model.model_name, model.source_part,
                 _deterministic_embedding(content, model.dimension),
                 _hash_content(content, model.model_name, model.source_part),
                 Some(model.dimension), None, None, None)

\* the body of the for loop up to the INSERT of the i-th model; a None title
\* has no .encode and leaves the handler as a 500
LoopBody(c) ==
    IF LoopContent(c).none THEN Finish(c, ServerError) ELSE [c EXCEPT !.pc = "write"]

\* mutant of WithModels: an empty selection is not an error, the loop runs zero times
WithModelsUnchecked(c, models) ==
    IF Len(models) = 0
    THEN Finish(c, Ok(<<>>))
    ELSE LoopBody([c EXCEPT !.models = models, !.i = 1])

\* if not models: raise ValueError; else enter the loop
WithModels(c, models) ==
    IF Len(models) = 0
    THEN Finish(c, Invalid("No embedding models available"))
    ELSE LoopBody([c EXCEPT !.models = models, !.i = 1])

\* GET /embeddings/models: EmbeddingService.list_models, one query
list_models(p) ==
    /\ call[p].pc \in {"idle", "done"}
    /\ \E exc \in Outcomes :
         LET c == [IdleCall EXCEPT !.op = "list_models", !.log = <<Stmt("list_models", exc)>>]
         IN call' = [call EXCEPT ![p] =
                IF exc = "ok" THEN Finish(c, Ok(ListedModels)) ELSE Finish(c, ServerError)]
    /\ UNCHANGED <<helper, fetch, search, access_count, nodes, embedding_models, node_embeddings, clock, hnsw_indexes>>

\* POST /embeddings/generate: load the node and check it has text
generate_for_node(p, node_ids, model_names) ==
    /\ call[p].pc \in {"idle", "done"}
    /\ clock < MaxWrites
    /\ \E node_id \in node_ids, model_name \in model_names, exc \in Outcomes : LET ok == exc = "ok" IN
         LET c == [IdleCall EXCEPT !.op = "generate_for_node", !.node_id = node_id,
                                   !.model_name = model_name,
                                   !.log = <<Stmt("select_node", exc)>>]
             found == {n \in nodes : n.id = node_id}
         IN call' = [call EXCEPT ![p] =
                IF ~ok THEN Finish(c, ServerError)
                ELSE IF found = {} THEN Finish(c, Invalid("Node not found"))
                ELSE LET node == CHOOSE n \in found : TRUE
                     IN IF Len(TextFull(node)) = 0
                        THEN Finish(c, Invalid("Node has no textual content to embed"))
                        ELSE [c EXCEPT !.pc = "select_models", !.node = Some(node)]]
    /\ UNCHANGED <<helper, fetch, search, access_count, nodes, embedding_models, node_embeddings, clock, hnsw_indexes>>

\* _select_models: the forced model, or the models mapped to the node's type
_select_models(p) ==
    /\ call[p].pc = "select_models"
    /\ \E exc \in Outcomes : LET ok == exc = "ok" IN
         LET c == [call[p] EXCEPT !.log = Append(@,
                        Stmt(IF TruthySeq(call[p].model_name) THEN "select_model"
                             ELSE "get_models_for_node", exc))]
         IN call' = [call EXCEPT ![p] =
                IF ~ok THEN Finish(c, ServerError)
                ELSE IF TruthySeq(c.model_name)
                THEN LET row == ActiveModel(c.model_name.val)
                     IN IF row = {}
                        THEN Finish(c, Invalid("Model is not available"))
                        ELSE WithModels(c, <<ModelRow(CHOOSE m \in row : TRUE, "full", 1)>>)
                ELSE LET rows == MappedModels(c.node.val.type)
                     IN IF Len(rows) > 0
                        THEN WithModels(c, rows)
                        ELSE [c EXCEPT !.pc = "select_default"]]
    /\ UNCHANGED <<helper, fetch, search, access_count, nodes, embedding_models, node_embeddings, clock, hnsw_indexes>>

\* _select_models, fallback: the single default model
select_default(p) ==
    /\ call[p].pc = "select_default"
    /\ \E exc \in Outcomes : LET ok == exc = "ok" IN
         LET c == [call[p] EXCEPT !.log = Append(@, Stmt("select_default", exc))]
         IN call' = [call EXCEPT ![p] =
                IF ~ok THEN Finish(c, ServerError) ELSE WithModels(c, DefaultModel)]
    /\ UNCHANGED <<helper, fetch, search, access_count, nodes, embedding_models, node_embeddings, clock, hnsw_indexes>>

\* the for loop of generate_for_node: the store_embedding call of the i-th model
generate_loop(p) ==
    /\ call[p].pc = "write"
    /\ store_embedding(p, call[p], LoopArgs(call[p]))

\* mutant of ensure_hnsw_except: the failure of the index call is raised
ensure_hnsw_raises(c) == "raise"

\* except Exception in _ensure_hnsw_indexes: pass
ensure_hnsw_except(c) == "pass"

\* store_embedding returns dict(row); then the caller goes on
Returned(c) ==
    IF c.op = "create_embedding"
    THEN Finish(c, Ok(c.row.val))
    ELSE LET d == [c EXCEPT !.stored = Append(@, c.row.val)]
         IN IF d.i < Len(d.models)
            THEN LoopBody([d EXCEPT !.i = @ + 1])
            ELSE Finish(d, Ok(d.stored))

\* _ensure_hnsw_indexes: SELECT create_hnsw_indexes(), then store_embedding returns
_ensure_hnsw_indexes(p) ==
    /\ call[p].pc = "ensure_index"
    /\ \E exc \in Outcomes : LET ok == exc = "ok" IN
         LET c == [call[p] EXCEPT !.log = Append(@, Stmt("create_hnsw_indexes", exc))]
         IN /\ hnsw_indexes' = (hnsw_indexes \/ ok)
            /\ call' = [call EXCEPT ![p] =
                    IF ok \/ ensure_hnsw_except(c) = "pass"
                    THEN Returned(c)
                    ELSE Finish(c, ServerError)]
    /\ UNCHANGED <<helper, fetch, search, access_count, nodes, embedding_models, node_embeddings, clock>>

----------------------------------------------------------------------------
(* The query service: the engines behind the SQL of search.py *)

\* COALESCE(title, '') || ' ' || COALESCE(text_content, '')
Doc(n) ==
    (IF n.title.none THEN <<>> ELSE n.title.val) \o <<" ">>
        \o (IF n.text_content.none THEN <<>> ELSE n.text_content.val)

\* occurrences of the one-character query term in a text
Occ(text, query) == Cardinality({k \in 1..Len(text) : <<text[k]>> = query})

\* to_tsvector(doc) @@ plainto_tsquery(query); nodes_search_idx.search(query)
Matches(n, query) == Occ(Doc(n), query) > 0

\* stand-in for paradedb.score(id): term frequency over document length, title boosted
paradedb_score(n, query) ==
    (100 * Occ(Doc(n), query)) \div Len(Doc(n))
        + (IF ~n.title.none /\ Occ(n.title.val, query) > 0 THEN 7 ELSE 0)

\* stand-in for ts_rank_cd(to_tsvector(doc), plainto_tsquery(query))
ts_rank_cd(n, query) ==
    10 * Occ(Doc(n), query)
        + (CHOOSE k \in 1..Len(Doc(n)) :
                /\ <<Doc(n)[k]>> = query
                /\ \A j \in 1..(k - 1) : <<Doc(n)[j]>> # query)

\* $2::text[] IS NULL OR type::text = ANY($2::text[])
TypeFilter(n, node_types) ==
    node_types.none \/ \E k \in 1..Len(node_types.val) : node_types.val[k] = n.type

RECURSIVE OrderByScoreDesc(_, _)
\* ORDER BY <score> DESC over a set of rows; field names the score column
OrderByScoreDesc(rows, field) ==
    IF rows = {} THEN <<>>
    ELSE LET top == CHOOSE r \in rows : \A q \in rows : q[field] <= r[field]
         IN <<top>> \o OrderByScoreDesc(rows \ {top}, field)

\* LIMIT n
Limit(rows, n) == SubSeq(rows, 1, IF Len(rows) < n THEN Len(rows) ELSE n)

\* the ParadeDB query of _bm25_node_search
ParadeRows(query, node_types, limit) ==
    Limit(OrderByScoreDesc(
            {[node_id |-> n.id, node_type |-> n.type, title |-> n.title,
              bm25_score |-> paradedb_score(n, query)] :
                n \in {x \in nodes : Matches(x, query) /\ TypeFilter(x, node_types)}},
            "bm25_score"), limit)

\* mutant of TsvectorRows: the fallback query leaves out the type condition
TsvectorRowsUnfiltered(query, node_types, limit) ==
    Limit(OrderByScoreDesc(
            {[node_id |-> n.id, node_type |-> n.type, title |-> n.title,
              bm25_score |-> ts_rank_cd(n, query)] :
                n \in {x \in nodes : Matches(x, query)}},
            "bm25_score"), limit)

\* the tsvector query of _bm25_node_search
TsvectorRows(query, node_types, limit) ==
    Limit(OrderByScoreDesc(
            {[node_id |-> n.id, node_type |-> n.type, title |-> n.title,
              bm25_score |-> ts_rank_cd(n, query)] :
                n \in {x \in nodes : Matches(x, query) /\ TypeFilter(x, node_types)}},
            "bm25_score"), limit)

\* hybrid_search(query, vector, model_name, alpha, limit, node_types): what the
\* combined ranking function may answer: nothing, or the candidates ranked by the
\* fused score alpha * vector + (1 - alpha) * lexical (alpha in percent)
HybridAnswers(query, vector_literal, model_name, alpha, limit, node_types) ==
    {<<>>,
     Limit(OrderByScoreDesc(
            {[node_id |-> n.id, node_type |-> n.type, title |-> n.title,
              bm25_score |-> paradedb_score(n, query),
              vector_score |-> 50 + Len(vector_literal),
              hybrid_score |-> (alpha * (50 + Len(vector_literal))
                                + (100 - alpha) * paradedb_score(n, query)) \div 100] :
                n \in {x \in nodes : Matches(x, query) /\ TypeFilter(x, node_types)}},
            "hybrid_score"), limit)}

\* the chunks of the corpus: node n1 is split into three passages
Chunks ==
    {[chunk_id |-> "c1", node_id |-> "n1", position |-> 1, content |-> <<"a">>],
     [chunk_id |-> "c2", node_id |-> "n1", position |-> 2, content |-> <<"b">>],
     [chunk_id |-> "c3", node_id |-> "n1", position |-> 3, content |-> <<"a", "b">>],
     [chunk_id |-> "c4", node_id |-> "n4", position |-> 1, content |-> <<"b">>]}

\* the node a chunk belongs to
NodeOf(c) == CHOOSE n \in nodes : n.id = c.node_id

\* the neighbours of chunk c at distance 1..radius on one side, as their ids
ContextOf(c, radius, side) ==
    {d.chunk_id : d \in {x \in Chunks :
        /\ x.node_id = c.node_id
        /\ (x.position - c.position) * side >= 1
        /\ (x.position - c.position) * side <= radius}}

\* search_chunks(query, node_types, language, limit, include_context, context_size)
ChunkRows(query, node_types, language, limit, include_context, context_size) ==
    Limit(OrderByScoreDesc(
            {[node_id |-> c.node_id, node_title |-> NodeOf(c).title,
              chunk_id |-> c.chunk_id, content |-> c.content,
              bm25_score |-> (100 * Occ(c.content, query)) \div Len(c.content) + c.position,
              context_before |-> IF include_context THEN Some(ContextOf(c, context_size, -1)) ELSE None,
              context_after |-> IF include_context THEN Some(ContextOf(c, context_size, 1)) ELSE None] :
                c \in {x \in Chunks : Occ(x.content, query) > 0
                                       /\ TypeFilter(NodeOf(x), node_types)}},
            "bm25_score"), limit)

\* hybrid_search_chunks(query, vector, model_name, alpha, limit, language): nothing,
\* or the matching chunks ranked by the fused score; it is given no category
\* filter and no context radius
HybridChunkAnswers(query, vector_literal, model_name, alpha, limit, language) ==
    {<<>>,
     Limit(OrderByScoreDesc(
            {[node_id |-> c.node_id, node_title |-> NodeOf(c).title,
              chunk_id |-> c.chunk_id, content |-> c.content,
              bm25_score |-> (100 * Occ(c.content, query)) \div Len(c.content) + c.position,
              vector_score |-> 50 + Len(vector_literal),
              hybrid_score |-> (alpha * (50 + Len(vector_literal))
                                + (100 - alpha)
                                  * ((100 * Occ(c.content, query)) \div Len(c.content) + c.position))
                               \div 100] :
                c \in {x \in Chunks : Occ(x.content, query) > 0}},
            "hybrid_score"), limit)}

----------------------------------------------------------------------------
(* POST /search *)

\* a SearchResult: every field but node_id is optional
SearchResult(node_id, title, node_type, chunk_id, content, summary, bm25_score, vector_score, hybrid_score, context_before, context_after) ==
    [node_id |-> node_id, title |-> title, node_type |-> node_type,
     chunk_id |-> chunk_id, content |-> content, summary |-> summary,
     bm25_score |-> bm25_score, vector_score |-> vector_score,
     hybrid_score |-> hybrid_score,
     context_before |-> context_before, context_after |-> context_after]

\* mutant of BM25Results: the lexical score is also reported as the fused score
BM25ResultsFused(rows) ==
    [k \in 1..Len(rows) |->
        SearchResult(rows[k].node_id, rows[k].title, Some(rows[k].node_type), None, None,
                     None, Some(rows[k].bm25_score), None, Some(rows[k].bm25_score), None, None)]

\* the result list _bm25_node_search builds from its rows
BM25Results(rows) ==
    [k \in 1..Len(rows) |->
        SearchResult(rows[k].node_id, rows[k].title, Some(rows[k].node_type), None, None,
                     None, Some(rows[k].bm25_score), None, None, None, None)]

\* the result list _hybrid_node_search builds from its rows
HybridResults(rows) ==
    [k \in 1..Len(rows) |->
        SearchResult(rows[k].node_id, rows[k].title, Some(rows[k].node_type), None, None,
                     None, Some(rows[k].bm25_score), Some(rows[k].vector_score),
                     Some(rows[k].hybrid_score), None, None)]

\* the result list _search_chunks builds from the rows of search_chunks
ChunkResults(rows) ==
    [k \in 1..Len(rows) |->
        SearchResult(rows[k].node_id, rows[k].node_title, None, Some(rows[k].chunk_id),
                     Some(rows[k].content), None, Some(rows[k].bm25_score), None, None,
                     rows[k].context_before, rows[k].context_after)]

\* the result list _hybrid_chunk_search builds from its rows
HybridChunkResults(rows) ==
    [k \in 1..Len(rows) |->
        SearchResult(rows[k].node_id, rows[k].node_title, None, Some(rows[k].chunk_id),
                     Some(rows[k].content), None, Some(rows[k].bm25_score),
                     Some(rows[k].vector_score), Some(rows[k].hybrid_score), None, None)]

\* what a caller of POST /search may send
SearchRequests ==
    [query : {<<"b">>},
     limit : {1, 3},
     mode : {"node", "chunk"},
     use_vector : BOOLEAN,
     query_embedding : {None, Some(<<>>), Some(<<16, 0>>)},
     alpha : {50},
     model_name : {"jina", "old", "nope"},
     node_types : {None, Some(<<"TextNode">>)},
     language : {"en"},
     include_context : {TRUE},
     context_size : {1}]

\* no search request is being served
IdleSearch ==
    [pc |-> "idle", request |-> None, model |-> None, results |-> <<>>, i |-> 0,
     log |-> <<>>, response |-> NoResponse]

\* one statement the search handler sent to the store: its name, its arguments,
\* how it ended
Sent(name, args, exc) == [stmt |-> name, args |-> args, ok |-> exc = "ok", exc |-> exc]

\* a search request may also be cancelled by its caller while a statement is in
\* flight: the await raises asyncio.CancelledError
SearchOutcomes == Outcomes \cup {"CancelledError"}

\* mutant of VectorRequested: only the flag asks for vector search
VectorRequestedFlagOnly(request) == request.use_vector

\* if request.use_vector or request.query_embedding
VectorRequested(request) == request.use_vector \/ TruthySeq(request.query_embedding)

\* the lexical path of the request's mode
LexicalPc(request) == IF request.mode = "chunk" THEN "search_chunks" ELSE "bm25"

\* mutant of except_Exception: a bare except, which catches every BaseException
except_BaseException(exc) == TRUE

\* except Exception: catches what derives from Exception; asyncio.CancelledError
\* derives from BaseException and passes through
except_Exception(exc) == exc # "CancelledError"

\* an exception that leaves the handler: the caller gets 500, or, when the
\* request was cancelled, no response at all
Propagate(s, exc) ==
    IF exc = "CancelledError"
    THEN [s EXCEPT !.pc = "cancelled"]
    ELSE [s EXCEPT !.pc = "done", !.response = ServerError]

\* a try block whose except Exception clause continues as handled
Caught(s, exc, handled) == IF except_Exception(exc) THEN handled ELSE Propagate(s, exc)

\* mutant of search_except: the failure of the vector path is raised to the caller
search_except_raises(s) == [s EXCEPT !.pc = "done", !.response = ServerError]

\* except Exception: pass in _search_nodes and _search_chunks, then the lexical path
search_except(s) == [s EXCEPT !.pc = LexicalPc(s.request.val)]

\* the for loop of search over the results, or the return when none is left
TrackOrReturn(s) ==
    IF s.i < Len(s.results)
    THEN [s EXCEPT !.pc = "track", !.i = @ + 1]
    ELSE [s EXCEPT !.pc = "done", !.response = Ok(s.results)]

\* _search_nodes / _search_chunks returned results
Found(s, results) == TrackOrReturn([s EXCEPT !.results = results, !.i = 0])

\* mutant of vector_return: an empty answer of the vector path is taken as a failure
vector_return_unless_empty(s, results) ==
    IF results = <<>> THEN search_except(s) ELSE Found(s, results)

\* try: return await _hybrid_node_search(...) / _hybrid_chunk_search(...): what
\* the vector path returns is the result, whatever its length
vector_return(s, results) == Found(s, results)

searchUnchanged == UNCHANGED <<nodes, embedding_models, node_embeddings, clock, hnsw_indexes, call, fetch, helper>>

\* the accesses recorded so far, over all nodes
TotalAccess ==
    Cardinality({x \in (DOMAIN access_count) \X (1..(MaxAccess + 3)) : x[2] <= access_count[x[1]]})

\* search: a request arrives and is dispatched on its mode and on whether vector
\* search is requested
search_start ==
    /\ search.pc \in {"idle", "done", "cancelled"}
    /\ TotalAccess < MaxAccess
    /\ \E request \in SearchRequests :
         search' = [IdleSearch EXCEPT
                        !.request = Some(request),
                        !.pc = IF VectorRequested(request) THEN "model_info"
                               ELSE LexicalPc(request)]
    /\ UNCHANGED access_count
    /\ searchUnchanged

\* _get_model_info, first await of _hybrid_node_search and _hybrid_chunk_search
_get_model_info ==
    /\ search.pc = "model_info"
    /\ \E exc \in SearchOutcomes : LET ok == exc = "ok" IN
         LET request == search.request.val
             s == [search EXCEPT !.log = Append(@, Sent("select_model", <<request.model_name>>, exc))]
             row == ActiveModel(request.model_name)
         IN search' =
                IF ~ok
                THEN Caught(s, exc, search_except(s))
                ELSE IF row = {}
                THEN search_except(s)
                ELSE [s EXCEPT !.model = Some(CHOOSE m \in row : TRUE),
                               !.pc = IF request.mode = "chunk" THEN "hybrid_chunks"
                                      ELSE "hybrid"]
    /\ UNCHANGED access_count
    /\ searchUnchanged

\* mutant of QueryVector: the query vector is always synthesized
QueryVectorSynthesized(request, model) ==
    search_deterministic_embedding(request.query, model.dimension)

\* request.query_embedding or _deterministic_embedding(request.query, model["dimension"])
QueryVector(request, model) ==
    IF TruthySeq(request.query_embedding) THEN request.query_embedding.val
    ELSE search_deterministic_embedding(request.query, model.dimension)

\* _hybrid_node_search: SELECT * FROM hybrid_search(...)
_hybrid_node_search ==
    /\ search.pc = "hybrid"
    /\ LET request == search.request.val
           args == <<request.query, _vector_literal(QueryVector(request, search.model.val)),
                     request.model_name, request.alpha, request.limit, request.node_types>>
       IN \E exc \in SearchOutcomes : LET ok == exc = "ok" IN
            LET s == [search EXCEPT !.log = Append(@, Sent("hybrid_search", args, exc))]
            IN IF ok
               THEN \E rows \in HybridAnswers(args[1], args[2], args[3], args[4], args[5], args[6]) :
                        search' = vector_return(s, HybridResults(rows))
               ELSE search' = Caught(s, exc, search_except(s))
    /\ UNCHANGED access_count
    /\ searchUnchanged

\* _hybrid_chunk_search: SELECT * FROM hybrid_search_chunks(...)
_hybrid_chunk_search ==
    /\ search.pc = "hybrid_chunks"
    /\ LET request == search.request.val
           args == <<request.query, _vector_literal(QueryVector(request, search.model.val)),
                     request.model_name, request.alpha, request.limit, request.language>>
       IN \E exc \in SearchOutcomes : LET ok == exc = "ok" IN
            LET s == [search EXCEPT !.log = Append(@, Sent("hybrid_search_chunks", args, exc))]
            IN IF ok
               THEN \E rows \in HybridChunkAnswers(args[1], args[2], args[3], args[4], args[5], args[6]) :
                        search' = vector_return(s, HybridChunkResults(rows))
               ELSE search' = Caught(s, exc, search_except(s))
    /\ UNCHANGED access_count
    /\ searchUnchanged

\* the arguments both lexical node queries are given
LexicalArgs(request) == <<request.query, request.node_types, request.limit>>

\* _bm25_node_search: the ParadeDB query; on any failure the tsvector query is next
_bm25_node_search ==
    /\ search.pc = "bm25"
    /\ LET args == LexicalArgs(search.request.val)
       IN \E exc \in SearchOutcomes : LET ok == exc = "ok" IN
            LET s == [search EXCEPT !.log = Append(@, Sent("paradedb", args, exc))]
            IN search' = IF ok
                         THEN Found(s, BM25Results(ParadeRows(args[1], args[2], args[3])))
                         ELSE Caught(s, exc, [s EXCEPT !.pc = "tsvector"])
    /\ UNCHANGED access_count
    /\ searchUnchanged

\* _bm25_node_search, except branch: the tsvector query; its failure is not caught
bm25_tsvector_fallback ==
    /\ search.pc = "tsvector"
    /\ LET args == LexicalArgs(search.request.val)
       IN \E exc \in SearchOutcomes : LET ok == exc = "ok" IN
            LET s == [search EXCEPT !.log = Append(@, Sent("tsvector", args, exc))]
            IN search' = IF ok
                         THEN Found(s, BM25Results(TsvectorRows(args[1], args[2], args[3])))
                         ELSE Propagate(s, exc)
    /\ UNCHANGED access_count
    /\ searchUnchanged

\* _search_chunks, lexical part: SELECT * FROM search_chunks(...); its failure is not caught
_search_chunks ==
    /\ search.pc = "search_chunks"
    /\ LET request == search.request.val
           args == <<request.query, request.node_types, request.language, request.limit,
                     request.include_context, request.context_size>>
       IN \E exc \in SearchOutcomes : LET ok == exc = "ok" IN
            LET s == [search EXCEPT !.log = Append(@, Sent("search_chunks", args, exc))]
            IN search' = IF ok
                         THEN Found(s, ChunkResults(ChunkRows(args[1], args[2], args[3],
                                                              args[4], args[5], args[6])))
                         ELSE Propagate(s, exc)
    /\ UNCHANGED access_count
    /\ searchUnchanged

\* mutant of track_except: a failed record-access call ends the request with an error
track_except_raises(s) == [s EXCEPT !.pc = "done", !.response = ServerError]

\* except Exception: pass around track_node_access: on to the next result
track_except(s) == TrackOrReturn(s)

\* the body of the for loop of search: SELECT track_node_access(result.node_id)
track_node_access ==
    /\ search.pc = "track"
    /\ LET node_id == search.results[search.i].node_id
       IN \E exc \in SearchOutcomes : LET ok == exc = "ok" IN
            LET s == [search EXCEPT !.log = Append(@, Sent("track_node_access", <<node_id>>, exc))]
            IN /\ search' = IF ok THEN TrackOrReturn(s) ELSE Caught(s, exc, track_except(s))
               /\ access_count' = IF ok THEN [access_count EXCEPT ![node_id] = @ + 1]
                                  ELSE access_count
    /\ searchUnchanged

----------------------------------------------------------------------------
(* POST /nodes, GET, PATCH and DELETE /nodes/{node_id} *)

\* HTTPException(status_code=404, detail=...)
NotFound(detail) == [status |-> 404, detail |-> detail, body |-> <<>>]

\* no node request is being served
IdleFetch ==
    [op |-> "idle", pc |-> "idle", node_id |-> "", result |-> None,
     log |-> <<>>, response |-> NoResponse]

\* the ids a caller may ask for
FetchNodeIds == {"n1", "n2", "n4", "n9"}

\* NodeUpdate payloads: a field that is None here was not set by the caller
UpdatePayloads ==
    {[title |-> None, text_content |-> None],
     [title |-> Some(<<"b">>), text_content |-> Some(<<"a">>)]}

\* payload.model_dump(exclude_unset=True): the fields the caller set
UpdatedFields(payload) == {f \in {"title", "text_content"} : ~payload[f].none}

\* UPDATE nodes SET field = value, ... : the row after the statement
UpdatedRow(n, payload) ==
    [n EXCEPT !.title = IF payload.title.none THEN @ ELSE payload.title,
              !.text_content = IF payload.text_content.none THEN @ ELSE payload.text_content]

\* get_node awaits track_node_access outside any try: its exception leaves the handler
fetch_raises(f) == [f EXCEPT !.pc = "done", !.response = ServerError]

\* get_node, first await: SELECT ... FROM nodes WHERE id = $1
select_node(f0, node_id, exc) ==
    LET f == [f0 EXCEPT !.node_id = node_id, !.log = Append(@, Stmt("select_node", exc))]
        found == {n \in nodes : n.id = node_id}
    IN IF exc # "ok" THEN [f EXCEPT !.pc = "done", !.response = ServerError]
       ELSE IF found = {} THEN [f EXCEPT !.pc = "done", !.response = NotFound("Node not found")]
       ELSE [f EXCEPT !.pc = "track", !.result = Some(CHOOSE n \in found : TRUE)]

\* GET /nodes/{node_id}
get_node ==
    /\ fetch.pc \in {"idle", "done"}
    /\ \E node_id \in FetchNodeIds, exc \in Outcomes :
         /\ node_id \in DOMAIN access_count => access_count[node_id] < MaxAccess
         /\ fetch' = select_node([IdleFetch EXCEPT !.op = "get_node"], node_id, exc)
    /\ UNCHANGED <<nodes, embedding_models, node_embeddings, clock, hnsw_indexes, call, search, access_count, helper>>

\* get_node, second await: SELECT track_node_access($1), then the node is returned
get_node_track ==
    /\ fetch.pc = "track"
    /\ \E exc \in Outcomes :
         LET f == [fetch EXCEPT !.log = Append(@, Stmt("track_node_access", exc))]
         IN IF exc = "ok"
            THEN /\ fetch' = [f EXCEPT !.pc = "done", !.response = Ok(f.result.val)]
                 /\ access_count' = [access_count EXCEPT ![f.node_id] = @ + 1]
            ELSE /\ fetch' = fetch_raises(f)
                 /\ access_count' = access_count
    /\ UNCHANGED <<nodes, embedding_models, node_embeddings, clock, hnsw_indexes, call, search, helper>>

\* PATCH /nodes/{node_id}: with nothing to update it returns get_node(node_id, db);
\* otherwise one UPDATE ... RETURNING
update_node ==
    /\ fetch.pc \in {"idle", "done"}
    /\ \E node_id \in FetchNodeIds, payload \in UpdatePayloads, exc \in Outcomes :
         LET f0 == [IdleFetch EXCEPT !.op = "update_node"]
         IN IF UpdatedFields(payload) = {}
            THEN /\ node_id \in DOMAIN access_count => access_count[node_id] < MaxAccess
                 /\ fetch' = select_node(f0, node_id, exc)
                 /\ nodes' = nodes
            ELSE LET f == [f0 EXCEPT !.node_id = node_id, !.log = <<Stmt("update_node", exc)>>]
                     found == {n \in nodes : n.id = node_id}
                 IN IF exc # "ok"
                    THEN /\ fetch' = [f EXCEPT !.pc = "done", !.response = ServerError]
                         /\ nodes' = nodes
                    ELSE IF found = {}
                    THEN /\ fetch' = [f EXCEPT !.pc = "done", !.response = NotFound("Node not found")]
                         /\ nodes' = nodes
                    ELSE /\ nodes' = {IF n.id = node_id THEN UpdatedRow(n, payload) ELSE n : n \in nodes}
                         /\ fetch' = [f EXCEPT !.pc = "done",
                                        !.response = Ok(UpdatedRow(CHOOSE n \in found : TRUE, payload))]
    /\ UNCHANGED <<embedding_models, node_embeddings, clock, hnsw_indexes, call, search, access_count, helper>>

\* what a caller of POST /nodes may send (NodeCreate: type and title are required)
CreatePayloads ==
    {[type |-> "TextNode", title |-> <<"b">>, text_content |-> None]}

\* the ULID primary keys the store generates, in the order it hands them out
Ulids == <<"m1", "m2", "m3", "m4", "m5">>

\* POST /nodes: one INSERT ... RETURNING; the id is generated by the store
create_node ==
    /\ fetch.pc \in {"idle", "done"}
    /\ clock < MaxWrites
    /\ clock < Len(Ulids)
    /\ \E node \in CreatePayloads, exc \in Outcomes :
         LET now == clock + 1
             row == [id |-> Ulids[now], type |-> node.type, title |-> Some(node.title),
                     text_content |-> node.text_content]
             f == [IdleFetch EXCEPT !.op = "create_node", !.log = <<Stmt("insert_node", exc)>>,
                                    !.pc = "done"]
         IN IF exc = "ok"
            THEN /\ nodes' = nodes \cup {row}
                 /\ clock' = now
                 /\ fetch' = [f EXCEPT !.node_id = row.id, !.response = Ok(row)]
            ELSE /\ nodes' = nodes
                 /\ clock' = clock
                 /\ fetch' = [f EXCEPT !.response = ServerError]
    /\ UNCHANGED <<embedding_models, node_embeddings, hnsw_indexes, call, search, access_count, helper>>

\* the ids a caller may ask to delete
DeleteNodeIds == {"n1", "n9"}

\* mutant of delete_response: the command tag of the DELETE is not looked at
delete_response_unchecked(count, node_id) ==
    Ok([status |-> "deleted", id |-> node_id])

\* if result == "DELETE 0": raise HTTPException(404); return {"status": "deleted", "id": node_id}
delete_response(count, node_id) ==
    IF count = 0 THEN NotFound("Node not found")
    ELSE Ok([status |-> "deleted", id |-> node_id])

\* DELETE /nodes/{node_id}: one DELETE FROM nodes WHERE id = $1, which cascades
\* to the embeddings of the node
delete_node ==
    /\ fetch.pc \in {"idle", "done"}
    /\ clock < MaxWrites
    /\ \E node_id \in DeleteNodeIds, exc \in Outcomes :
         LET f == [IdleFetch EXCEPT !.op = "delete_node", !.node_id = node_id, !.pc = "done",
                                    !.log = <<Stmt("delete_node", exc)>>]
             found == {n \in nodes : n.id = node_id}
         IN IF exc = "ok"
            THEN /\ nodes' = nodes \ found
                 /\ node_embeddings' = {r \in node_embeddings : r.node_id # node_id}
                 /\ clock' = IF found = {} THEN clock ELSE clock + 1
                 /\ fetch' = [f EXCEPT !.response = delete_response(Cardinality(found), node_id)]
            ELSE /\ nodes' = nodes
                 /\ node_embeddings' = node_embeddings
                 /\ clock' = clock
                 /\ fetch' = [f EXCEPT !.response = ServerError]
    /\ UNCHANGED <<embedding_models, hnsw_indexes, call, search, access_count, helper>>

----------------------------------------------------------------------------
(* The pure helpers applied to given inputs *)

\* no helper is being applied
IdleHelper == [op |-> "idle"]

RECURSIVE Texts(_, _)
\* the texts over an alphabet of at most n characters
Texts(alphabet, n) ==
    IF n = 0 THEN {<<>>}
    ELSE Texts(alphabet, n - 1)
            \cup {Append(t, c) : t \in Texts(alphabet, n - 1), c \in alphabet}

\* the (content, dimension) pairs the deterministic embedder is given, and the
\* result of each of its two copies once it has run
EmbedInputs ==
    [op : {"embed"}, content : Texts({"a", "b", " "}, MaxLen), dimension : 0..MaxDim,
     service : {None}, search : {None}]

\* embedding_service._deterministic_embedding(content, dimension)
embed_service ==
    /\ helper.op = "embed"
    /\ helper.service.none
    /\ helper' = [helper EXCEPT
            !.service = Some(_deterministic_embedding(helper.content, helper.dimension))]
    /\ UNCHANGED <<nodes, embedding_models, node_embeddings, clock, hnsw_indexes, call, search, access_count, fetch>>

\* search._deterministic_embedding(text, dimension)
embed_search ==
    /\ helper.op = "embed"
    /\ helper.search.none
    /\ helper' = [helper EXCEPT
            !.search = Some(search_deterministic_embedding(helper.content, helper.dimension))]
    /\ UNCHANGED <<nodes, embedding_models, node_embeddings, clock, hnsw_indexes, call, search, access_count, fetch>>

\* the (content, model_name, source_part) triples _hash_content is given
HashTriples == Texts({"a", "|"}, MaxLen) \X {"jina", "siglip", "j|s"} \X {"full", "title"}

\* two triples to hash, and the hash of each once it has been computed
HashInputs ==
    [op : {"hash"}, first : HashTriples, second : HashTriples,
     hash_first : {None}, hash_second : {None}]

\* _hash_content on the first triple
hash_first ==
    /\ helper.op = "hash"
    /\ helper.hash_first.none
    /\ helper' = [helper EXCEPT
            !.hash_first = Some(_hash_content(helper.first[1], helper.first[2], helper.first[3]))]
    /\ UNCHANGED <<nodes, embedding_models, node_embeddings, clock, hnsw_indexes, call, search, access_count, fetch>>

\* _hash_content on the second triple
hash_second ==
    /\ helper.op = "hash"
    /\ helper.hash_second.none
    /\ helper' = [helper EXCEPT
            !.hash_second = Some(_hash_content(helper.second[1], helper.second[2], helper.second[3]))]
    /\ UNCHANGED <<nodes, embedding_models, node_embeddings, clock, hnsw_indexes, call, search, access_count, fetch>>

----------------------------------------------------------------------------
(* The specification *)

\* rows of table nodes
InitNodes ==
    {[id |-> "n1", type |-> "TextNode", title |-> Some(<<"a">>), text_content |-> Some(<<"a", "b">>)],
     [id |-> "n2", type |-> "TextNode", title |-> Some(<<>>), text_content |-> Some(<<"b">>)],
     [id |-> "n3", type |-> "ImageNode", title |-> Some(<<" ">>), text_content |-> None],
     [id |-> "n4", type |-> "ImageNode", title |-> Some(<<"b">>), text_content |-> None]}

\* rows of table embedding_models
InitModels ==
    {[model_name |-> "jina", modality |-> "text", dimension |-> 2,
      is_active |-> TRUE, is_default |-> TRUE, added_at |-> 1],
     [model_name |-> "siglip", modality |-> "image", dimension |-> 3,
      is_active |-> TRUE, is_default |-> FALSE, added_at |-> 2],
     [model_name |-> "old", modality |-> "text", dimension |-> 2,
      is_active |-> FALSE, is_default |-> FALSE, added_at |-> 4],
     [model_name |-> "base", modality |-> "text", dimension |-> 8,
      is_active |-> TRUE, is_default |-> FALSE, added_at |-> 3]}

\* the registry with the default flag set on the models named (the rows are
\* operator-managed)
WithDefaults(names) ==
    {[m EXCEPT !.is_default = (m.model_name \in names)] : m \in InitModels}

\* the registries generation is run against: one default, none, a single one of
\* dimension 8, and two defaults of which the later added is inactive
Registries ==
    {WithDefaults(names) : names \in {{"jina"}, {}, {"base"}, {"base", "old"}}}

InitStore ==
    /\ nodes = InitNodes
    /\ node_embeddings = {}
    /\ clock = 0
    /\ hnsw_indexes = FALSE
    /\ call = [p \in Procs |-> IdleCall]
    /\ search = IdleSearch
    /\ access_count = [n \in {x.id : x \in InitNodes} |-> 0]
    /\ fetch = IdleFetch

Init ==
    /\ embedding_models = InitModels
    /\ InitStore
    /\ helper = IdleHelper

InitGen ==
    /\ embedding_models \in Registries
    /\ InitStore
    /\ helper = IdleHelper

\* two handlers race on the store: both store caller-supplied vectors, w1 also
\* serves generation requests
Next ==
    \/ \E p \in Procs : create_embedding(p, Payloads)
    \/ generate_for_node("w1", {"n1"}, {None})
    \/ _select_models("w1")
    \/ generate_loop("w1")
    \/ \E p \in Procs : _ensure_hnsw_indexes(p)

Spec == Init /\ [][Next]_vars

\* one handler serves generation requests for every node and forced model
NextGen ==
    \/ list_models("w1")
    \/ generate_for_node("w1", GenNodeIds, GenModelNames)
    \/ _select_models("w1")
    \/ select_default("w1")
    \/ generate_loop("w1")
    \/ _ensure_hnsw_indexes("w1")

SpecGen == InitGen /\ [][NextGen]_vars

\* one search request after the other
NextSearch ==
    \/ search_start
    \/ _get_model_info
    \/ _hybrid_node_search
    \/ _hybrid_chunk_search
    \/ _bm25_node_search
    \/ bm25_tsvector_fallback
    \/ _search_chunks
    \/ track_node_access

SpecSearch == Init /\ [][NextSearch]_vars

\* one node request after the other
NextNodes ==
    \/ create_node
    \/ get_node
    \/ get_node_track
    \/ update_node
    \/ delete_node

SpecNodes == Init /\ [][NextNodes]_vars

\* the deterministic embedder on every content and dimension of the bounds
InitEmbed ==
    /\ embedding_models = InitModels
    /\ InitStore
    /\ helper \in EmbedInputs

NextEmbed ==
    \/ embed_service
    \/ embed_search

SpecEmbed == InitEmbed /\ [][NextEmbed]_vars

\* the content hash on every pair of triples of the bounds
InitHash ==
    /\ embedding_models = InitModels
    /\ InitStore
    /\ helper \in HashInputs

NextHash ==
    \/ hash_first
    \/ hash_second

SpecHash == InitHash /\ [][NextHash]_vars

----------------------------------------------------------------------------
(* Properties of the embedding store and of embedding generation *)

\* the step in which the INSERT of handler p commits
Commits(p) == call[p].pc # "ensure_index" /\ call'[p].pc = "ensure_index"

\* the step in which the index call of handler p is answered and store_embedding returns
IndexAnswered(p) == call[p].pc = "ensure_index" /\ call'[p].pc # "ensure_index"

\* row r carries the five key columns of the write a
HasKey(r, a) ==
    /\ r.node_id = a.node_id
    /\ r.chunk_id = a.chunk_id
    /\ r.modality = a.modality
    /\ r.model_name = a.model_name
    /\ r.source_part = a.source_part

InsertFailed(c) == \E k \in 1..Len(c.log) : c.log[k].stmt = "insert" /\ ~c.log[k].ok

InsertsTried(c) == Cardinality({k \in 1..Len(c.log) : c.log[k].stmt = "insert"})

\* C3: a generate_for_node call with two or more selected models in which a
\* store-write failed still attempts every selected model and answers 200 with
\* the summaries of the models that succeeded.
C3_PartialFailureIsolated ==
    \A p \in Procs :
        (/\ call[p].op = "generate_for_node"
         /\ call[p].pc = "done"
         /\ Len(call[p].models) >= 2
         /\ InsertFailed(call[p]))
        => /\ call[p].response.status = 200
           /\ InsertsTried(call[p]) = Len(call[p].models)

\* C4: the store never holds two records with the same (node_id, chunk_id,
\* modality, model_name, source_part), every committed write leaves the record of
\* its key holding that write's vector and content_hash, and nothing but a
\* committing write changes a record.
C4_OneRecordPerKeyLastWriterWins ==
    [][/\ \A r1, r2 \in node_embeddings' : HasKey(r1, r2) => r1 = r2
       /\ \A p \in Procs : Commits(p) =>
            LET a == call'[p].args.val
            IN /\ \E r \in node_embeddings' :
                    /\ HasKey(r, a)
                    /\ r.embedding = _vector_literal(a.embedding)
                    /\ r.content_hash = a.content_hash
               /\ \A r \in node_embeddings' : HasKey(r, a) \/ r \in node_embeddings
               /\ \A r \in node_embeddings : HasKey(r, a) \/ r \in node_embeddings'
       /\ (\A p \in Procs : ~Commits(p)) => node_embeddings' = node_embeddings
      ]_vars

\* two handlers, one of them generate_for_node, have both committed a write to
\* the same key and the store holds a single record
C4_Witness ==
    /\ call["w1"].pc = "ensure_index" /\ call["w2"].pc = "ensure_index"
    /\ call["w1"].op = "generate_for_node"
    /\ HasKey(call["w1"].args.val, call["w2"].args.val)
    /\ Cardinality({r \in node_embeddings : HasKey(r, call["w2"].args.val)}) = 1
    /\ \E r \in node_embeddings : HasKey(r, call["w2"].args.val) /\ r.id < r.generated_at

\* C5 as stated: a store_embedding call on an existing key whose stored vector
\* equals the new vector leaves exactly one record for the key, with vector and
\* content_hash unchanged and a later generated_at.
C5_SameVectorKeepsHash ==
    [][\A p \in Procs : Commits(p) =>
          LET a == call'[p].args.val
          IN \A r \in node_embeddings :
                (HasKey(r, a) /\ r.embedding = _vector_literal(a.embedding))
                => /\ Cardinality({q \in node_embeddings' : HasKey(q, a)}) = 1
                   /\ \A q \in node_embeddings' : HasKey(q, a) =>
                        /\ q.embedding = r.embedding
                        /\ q.content_hash = r.content_hash
                        /\ q.generated_at > r.generated_at
      ]_vars

\* C5 amended: a store_embedding call on an existing key whose stored vector and
\* content_hash equal the new ones leaves exactly one record for the key, with
\* vector and content_hash unchanged and a later generated_at.
C5_IdempotentUpsert ==
    [][\A p \in Procs : Commits(p) =>
          LET a == call'[p].args.val
          IN \A r \in node_embeddings :
                (/\ HasKey(r, a)
                 /\ r.embedding = _vector_literal(a.embedding)
                 /\ r.content_hash = a.content_hash)
                => /\ Cardinality({q \in node_embeddings' : HasKey(q, a)}) = 1
                   /\ \A q \in node_embeddings' : HasKey(q, a) =>
                        /\ q.id = r.id
                        /\ q.embedding = r.embedding
                        /\ q.content_hash = r.content_hash
                        /\ q.generated_at > r.generated_at
      ]_vars

\* both handlers have stored the same vector with the same hash under the same
\* key, and the single record of the key was refreshed after it was created
C5_Witness ==
    /\ call["w1"].pc = "ensure_index" /\ call["w2"].pc = "ensure_index"
    /\ call["w1"].args.val.embedding = call["w2"].args.val.embedding
    /\ call["w1"].args.val.content_hash = call["w2"].args.val.content_hash
    /\ HasKey(call["w1"].args.val, call["w2"].args.val)
    /\ \E r \in node_embeddings :
            /\ HasKey(r, call["w1"].args.val)
            /\ r.embedding = _vector_literal(call["w1"].args.val.embedding)
            /\ r.id < r.generated_at

\* C6: a store_embedding call that hits an existing key replaces vector,
\* content_hash, dimension, generated_at and last_accessed, and overwrites
\* generation_time_ms and token_count only when the new value is non-null.
C6_ConflictUpdate ==
    [][\A p \in Procs : Commits(p) =>
          LET a == call'[p].args.val
          IN \A r \in node_embeddings : HasKey(r, a) =>
                \E q \in node_embeddings' :
                    /\ q.id = r.id
                    /\ HasKey(q, a)
                    /\ q.embedding = _vector_literal(a.embedding)
                    /\ q.content_hash = a.content_hash
                    /\ q.dimension = a.dimension
                    /\ q.generated_at = clock' /\ clock' > r.generated_at
                    /\ q.last_accessed = clock' /\ clock' > r.last_accessed
                    /\ q.generation_time_ms =
                         (IF a.generation_time_ms.none THEN r.generation_time_ms
                          ELSE a.generation_time_ms)
                    /\ q.token_count =
                         (IF a.token_count.none THEN r.token_count ELSE a.token_count)
      ]_vars

\* a write with generation_time_ms NULL and token_count 7 has hit a record that
\* had generation_time_ms 5: the 5 is kept, the 7 is stored
C6_Witness ==
    \E p \in Procs : \E r \in node_embeddings :
        /\ call[p].pc = "ensure_index"
        /\ HasKey(r, call[p].args.val)
        /\ r.id < r.generated_at
        /\ call[p].args.val.generation_time_ms.none
        /\ ~r.generation_time_ms.none
        /\ ~call[p].args.val.token_count.none
        /\ r.token_count = call[p].args.val.token_count

\* C7: in every store_embedding call the index-maintenance statement directly
\* follows a successful INSERT of the same call (never a failed one, never first);
\* and whether it succeeds or fails, the step that answers it leaves the table
\* unchanged and returns the summary of the written row: the caller of POST
\* /embeddings gets 200 with it, generate_for_node appends it to its result.
C7_IndexAfterWriteNonFatal ==
    /\ [](\A p \in Procs : \A k \in 1..Len(call[p].log) :
            call[p].log[k].stmt = "create_hnsw_indexes"
            => k > 1 /\ call[p].log[k - 1].stmt = "insert" /\ call[p].log[k - 1].ok)
    /\ [][\A p \in Procs : IndexAnswered(p) =>
            /\ node_embeddings' = node_embeddings
            /\ call[p].op = "create_embedding" =>
                    /\ call'[p].response.status = 200
                    /\ call'[p].response.body = call[p].row.val
            /\ call[p].op = "generate_for_node" =>
                    call'[p].stored = Append(call[p].stored, call[p].row.val)
         ]_vars

\* POST /embeddings answered 200 although its index-maintenance call failed
C7_Witness ==
    \E p \in Procs :
        /\ call[p].op = "create_embedding"
        /\ call[p].pc = "done"
        /\ call[p].response.status = 200
        /\ call[p].log = <<Stmt("insert", "ok"), Stmt("create_hnsw_indexes", "PostgresError")>>
        /\ \E r \in node_embeddings : Returning(r) = call[p].response.body

\* C8: when the store-write of a later model fails inside generate_for_node, the
\* table is left as it was and the record of every model written before it in
\* this call is still there, exactly as the call's summary of it says.
C8_NoCrossModelRollback ==
    [][\A p \in Procs :
          (/\ call[p].op = "generate_for_node"
           /\ call[p].pc = "write"
           /\ call'[p].pc = "done")
          => /\ node_embeddings' = node_embeddings
             /\ \A k \in 1..Len(call[p].stored) :
                    \E r \in node_embeddings' : Returning(r) = call[p].stored[k]
      ]_vars

\* generate_for_node failed on its second model and the first model's record is in the store
C8_Witness ==
    \E p \in Procs :
        /\ call[p].op = "generate_for_node"
        /\ call[p].pc = "done"
        /\ call[p].response.status = 400
        /\ Len(call[p].stored) = 1
        /\ call[p].i = 2
        /\ \E r \in node_embeddings : Returning(r) = call[p].stored[1]

\* the dimension the registry holds for a model
RegisteredDimensions(model_name) ==
    {m.dimension : m \in {x \in embedding_models : x.model_name = model_name}}

\* C9 as stated: no record is written whose dimension differs from the dimension
\* registered for its model.
C9_DimensionMismatchRejected ==
    \A r \in node_embeddings : r.dimension \in RegisteredDimensions(r.model_name)

\* C9 amended: store_embedding writes the record with the supplied dimension, or
\* with len(vector) when none is supplied, and with the whole vector; it does not
\* compare the dimension with the one registered for the model.
C9_DimensionDefaultsToLength ==
    [][\A p \in Procs : Commits(p) =>
          LET a == call'[p].args.val
          IN \E r \in node_embeddings' :
                /\ HasKey(r, a)
                /\ Len(r.embedding) = Len(a.embedding)
                /\ r.dimension =
                     (IF call'[p].op = "create_embedding" THEN Len(a.embedding)
                      ELSE call'[p].models[call'[p].i].dimension)
      ]_vars

\* POST /embeddings has stored a one-component vector for a model registered with dimension 2
C9_Witness ==
    \E p \in Procs : \E r \in node_embeddings :
        /\ call[p].op = "create_embedding"
        /\ call[p].pc = "done"
        /\ call[p].response.status = 200
        /\ Returning(r) = call[p].response.body
        /\ r.dimension = 1
        /\ Len(r.embedding) = 1
        /\ RegisteredDimensions(r.model_name) = {2}

----------------------------------------------------------------------------
(* Properties of POST /search *)

IsTrack(e) == e.stmt = "track_node_access"

IsQuery(e) == e.stmt # "track_node_access" /\ e.stmt # "select_model"

\* the queries the request has sent so far, and the record-access calls
QueriesSent == SelectSeq(search.log, IsQuery)

TracksSent == SelectSeq(search.log, IsTrack)

\* the request asked for vector search and the vector path is over without a
\* successful vector query
VectorPathFailed ==
    /\ ~search.request.none
    /\ VectorRequested(search.request.val)
    /\ search.pc \notin {"model_info", "hybrid", "hybrid_chunks"}
    /\ \A k \in 1..Len(search.log) :
            search.log[k].stmt \in {"hybrid_search", "hybrid_search_chunks"} => ~search.log[k].ok

\* the lexical query that answered, if one did
LexicalAnswered ==
    \E k \in 1..Len(search.log) :
        search.log[k].stmt \in {"paradedb", "tsvector", "search_chunks"} /\ search.log[k].ok

\* the result list of the lexical-only path for this query, category filter and
\* limit, from the engine that answered
LexicalOnlyResults ==
    LET r == search.request.val
    IN IF r.mode = "chunk"
       THEN ChunkResults(ChunkRows(r.query, r.node_types, r.language, r.limit,
                                   r.include_context, r.context_size))
       ELSE IF \E k \in 1..Len(search.log) : search.log[k].stmt = "paradedb" /\ search.log[k].ok
       THEN BM25Results(ParadeRows(r.query, r.node_types, r.limit))
       ELSE BM25Results(TsvectorRows(r.query, r.node_types, r.limit))

\* C1 as stated: a finished search request that asked for vector search and whose
\* vector path failed raised no error and returned the lexical-only result list.
C1_FallbackNeverFails ==
    (search.pc = "done" /\ VectorPathFailed)
    => /\ search.response.status = 200
       /\ search.response.body = LexicalOnlyResults

\* C1 amended: a finished search request that asked for vector search and whose
\* vector path failed ends as the lexical-only path ends: with the lexical-only
\* result list, or with an error only when the lexical query itself failed.
C1_FallbackIsLexicalOnly ==
    (search.pc = "done" /\ VectorPathFailed)
    => IF LexicalAnswered
       THEN /\ search.response.status = 200
            /\ search.response.body = LexicalOnlyResults
       ELSE /\ search.response.status = 500
            /\ Len(QueriesSent) > 0
            /\ QueriesSent[Len(QueriesSent)].stmt \in {"tsvector", "search_chunks"}
            /\ ~QueriesSent[Len(QueriesSent)].ok

\* the vector query failed and the request returned the three lexical results
C1_Witness ==
    /\ search.pc = "done"
    /\ VectorPathFailed
    /\ \E k \in 1..Len(search.log) : search.log[k].stmt = "hybrid_search"
    /\ search.response.status = 200
    /\ Len(search.response.body) = 3
    /\ search.response.body = LexicalOnlyResults

\* C2: a finished search request that asked for vector search and named a model
\* that is not registered or not active ended with 400 Unknown embedding model.
C2_UnknownModelSurfaces ==
    (/\ search.pc = "done"
     /\ VectorRequested(search.request.val)
     /\ ActiveModel(search.request.val.model_name) = {}
     /\ search.log[1] = Sent("select_model", <<search.request.val.model_name>>, "ok"))
    => search.response.status = 400

\* the result lists the query that answered may have returned
AnsweredResults ==
    LET r == search.request.val
        last == QueriesSent[Len(QueriesSent)]
    IN CASE last.stmt = "hybrid_search" ->
                {HybridResults(rows) : rows \in
                    HybridAnswers(r.query, _vector_literal(QueryVector(r, search.model.val)),
                                  r.model_name, r.alpha, r.limit, r.node_types)}
         [] last.stmt = "hybrid_search_chunks" ->
                {HybridChunkResults(rows) : rows \in
                    HybridChunkAnswers(r.query, _vector_literal(QueryVector(r, search.model.val)),
                                       r.model_name, r.alpha, r.limit, r.language)}
         [] OTHER -> {LexicalOnlyResults}

\* C10: a search request whose query was answered ends with 200 and the complete
\* result list in the order the query gave, and has sent exactly one
\* record-access call per result, in order, whichever of those calls failed.
C10_TrackingIsBestEffort ==
    (/\ search.pc = "done"
     /\ Len(QueriesSent) > 0
     /\ QueriesSent[Len(QueriesSent)].ok)
    => /\ search.response.status = 200
       /\ search.response.body \in AnsweredResults
       /\ Len(TracksSent) = Len(search.response.body)
       /\ \A k \in 1..Len(TracksSent) :
                TracksSent[k].args = <<search.response.body[k].node_id>>

\* three results were returned although the first and the last record-access call failed
C10_Witness ==
    /\ search.pc = "done"
    /\ search.response.status = 200
    /\ Len(search.response.body) = 3
    /\ Len(TracksSent) = 3
    /\ ~TracksSent[1].ok /\ TracksSent[2].ok /\ ~TracksSent[3].ok

----------------------------------------------------------------------------
(* Properties of the node requests *)

\* the request found its node and its record-access call failed
FetchTrackFailed ==
    /\ fetch.pc = "done"
    /\ ~fetch.result.none
    /\ Len(fetch.log) = 2
    /\ fetch.log[2].stmt = "track_node_access"
    /\ ~fetch.log[2].ok

\* C11: a get_node, or an update_node with an empty payload, that found its node
\* answers 200 with the node although its record-access call failed.
C11_TrackFailureNeverFailsFetch ==
    FetchTrackFailed
    => /\ fetch.response.status = 200
       /\ fetch.response.body = fetch.result.val

----------------------------------------------------------------------------
(* Properties of generate_for_node and of model selection *)

\* every statement the call has sent was answered by the store
AllAnswered(c) == \A k \in 1..Len(c.log) : c.log[k].ok

\* the call has sent no INSERT and no index-maintenance statement
NoWriteIssued(c) ==
    \A k \in 1..Len(c.log) : c.log[k].stmt \notin {"insert", "create_hnsw_indexes"}

\* no node has this id
ItemAbsent(node_id) == \A n \in nodes : n.id # node_id

\* title and body hold nothing but blanks, where they are present at all
Blank(part) == part.none \/ \A k \in 1..Len(part.val) : part.val[k] = " "

NoEmbeddableContent(node_id) ==
    \A n \in nodes : n.id = node_id => Blank(n.title) /\ Blank(n.text_content)

\* the request names a model, and the registry has no active model of that name
UnknownModel(c) ==
    /\ ~c.model_name.none /\ c.model_name.val # ""
    /\ \A m \in embedding_models : m.model_name = c.model_name.val => ~m.is_active

\* the request names no model, no active model is mapped to the node's type and
\* no model is flagged default
NoModelsAvailable(c) ==
    /\ c.model_name.none \/ c.model_name.val = ""
    /\ \A n \in nodes : n.id = c.node_id =>
            \A gm \in get_models_for_node(n.type) : \A m \in embedding_models :
                m.model_name = gm.model_name => ~m.is_active
    /\ \A m \in embedding_models : ~m.is_default

Rejected(c, detail) ==
    /\ c.response.status = 400
    /\ c.response.detail = detail
    /\ NoWriteIssued(c)

ValidationDetails ==
    {"Node not found", "Node has no textual content to embed",
     "Model is not available", "No embedding models available"}

\* C12: a finished generate_for_node call whose queries were all answered ended
\* with 400 Node not found when the item is absent, otherwise with 400 no textual
\* content when the trimmed join of title and body is empty, otherwise with 400
\* model not available / no models available when selection fails or is empty;
\* it sent no INSERT and no index maintenance, and the step that raised the error
\* left the embedding table and the indexes as they were.
C12_GenerationErrorsSurfaced ==
    /\ [](\A p \in Procs :
            LET c == call[p]
            IN (c.op = "generate_for_node" /\ c.pc = "done" /\ AllAnswered(c)) =>
                 IF ItemAbsent(c.node_id) THEN Rejected(c, "Node not found")
                 ELSE IF NoEmbeddableContent(c.node_id)
                 THEN Rejected(c, "Node has no textual content to embed")
                 ELSE IF UnknownModel(c) THEN Rejected(c, "Model is not available")
                 ELSE IF NoModelsAvailable(c) THEN Rejected(c, "No embedding models available")
                 ELSE c.response.status = 200)
    /\ [][\A p \in Procs :
            (/\ call'[p] # call[p]
             /\ call'[p].pc = "done"
             /\ call'[p].response.detail \in ValidationDetails)
            => /\ node_embeddings' = node_embeddings
               /\ hnsw_indexes' = hnsw_indexes
               /\ clock' = clock
         ]_vars

\* every query was answered, the node has text, and the call ended with 400
\* because its type has no mapping and the registry has no default model
C12_Witness ==
    \E p \in Procs :
        /\ call[p].op = "generate_for_node"
        /\ call[p].pc = "done"
        /\ AllAnswered(call[p])
        /\ Len(call[p].log) = 3
        /\ ~ItemAbsent(call[p].node_id)
        /\ ~NoEmbeddableContent(call[p].node_id)
        /\ call[p].response = Invalid("No embedding models available")

\* the request forces no model (an empty name is no name)
NotForced(c) == c.model_name.none \/ c.model_name.val = ""

\* the last statement of the call was answered
LastAnswered(c) == Len(c.log) > 0 /\ c.log[Len(c.log)].ok

\* the (mapping row, model) pairs of a node type whose model is active
ActiveMapped(node_type) ==
    {x \in get_models_for_node(node_type) \X embedding_models :
        x[1].model_name = x[2].model_name /\ x[2].is_active}

\* entry e of a selection is the model m with the role and priority given
IsEntry(e, m, source_part, priority) ==
    /\ e.model_name = m.model_name
    /\ e.modality = m.modality
    /\ e.dimension = m.dimension
    /\ e.source_part = source_part
    /\ e.priority = priority

\* C13: model selection without a forced model returns, whenever the mapping
\* query yields rows, exactly those rows in ascending priority order, each with
\* its mapped role, and does not consult the default; only when the mapping
\* yields no rows does it ask for the default model, and then it returns the one
\* entry of the most recently added default with role 'full', or nothing (the
\* call ends with no models available) when no model is flagged default.
C13_SelectionWithoutForcedModel ==
    [][\A p \in Procs :
          (/\ call[p].pc \in {"select_models", "select_default"}
           /\ call'[p] # call[p]
           /\ NotForced(call[p])
           /\ LastAnswered(call'[p]))
          => LET c == call[p]
                 d == call'[p]
                 mapped == ActiveMapped(c.node.val.type)
                 defaults == {m \in embedding_models : m.is_default}
             IN IF c.pc = "select_models"
                THEN IF mapped # {}
                     THEN /\ d.pc # "select_default"
                          /\ Len(d.models) = Cardinality(mapped)
                          /\ \A x \in mapped : \E k \in 1..Len(d.models) :
                                IsEntry(d.models[k], x[2], x[1].source_part, x[1].priority)
                          /\ \A j, k \in 1..Len(d.models) :
                                j < k => d.models[j].priority <= d.models[k].priority
                     ELSE d.pc = "select_default" /\ d.models = <<>>
                ELSE /\ mapped = {}
                     /\ IF defaults = {}
                        THEN d.response = Invalid("No embedding models available")
                        ELSE /\ Len(d.models) = 1
                             /\ \E m \in defaults :
                                    /\ \A q \in defaults : q.added_at <= m.added_at
                                    /\ IsEntry(d.models[1], m, "full", 1)
      ]_vars

\* two models are flagged default and the selection, made by the fallback,
\* holds the one added last
C13_Witness ==
    \E p \in Procs :
        /\ call[p].op = "generate_for_node"
        /\ NotForced(call[p])
        /\ Cardinality({m \in embedding_models : m.is_default}) = 2
        /\ \E k \in 1..Len(call[p].log) :
                call[p].log[k].stmt = "select_default" /\ call[p].log[k].ok
        /\ Len(call[p].models) = 1
        /\ \E m \in embedding_models :
                /\ m.is_default
                /\ \A q \in embedding_models : q.is_default => q.added_at <= m.added_at
                /\ IsEntry(call[p].models[1], m, "full", 1)

\* the step in which the selection query of handler p is answered
SelectionAnswered(p) ==
    /\ call[p].pc = "select_models"
    /\ call'[p] # call[p]
    /\ LastAnswered(call'[p])

\* that step yields the one entry of the named model with role 'full' when the
\* model is registered and active, and ends the call with 400 otherwise
SelectsNamed(p) ==
    LET named == {m \in embedding_models :
                    m.model_name = call[p].model_name.val /\ m.is_active}
    IN IF named = {}
       THEN call'[p].response = Invalid("Model is not available")
       ELSE /\ Len(call'[p].models) = 1
            /\ \E m \in named : IsEntry(call'[p].models[1], m, "full", 1)

\* the call has asked neither for the mapping nor for the default model
NeverConsulted(c) ==
    \A k \in 1..Len(c.log) : c.log[k].stmt \notin {"get_models_for_node", "select_default"}

\* the request carries a model name, whatever it is
NameGiven(c) == c.op = "generate_for_node" /\ ~c.model_name.none

\* the request carries a model name that is not the empty string
NameGivenNonEmpty(c) == NameGiven(c) /\ c.model_name.val # ""

\* C14 as stated: model selection with a forced model name returns exactly that
\* model with role 'full' when it is registered and active, fails with model not
\* available when it is absent or inactive, and never consults the mapping or
\* the default.
C14_ForcedModelAnyName ==
    /\ [][\A p \in Procs : (SelectionAnswered(p) /\ NameGiven(call[p])) => SelectsNamed(p)]_vars
    /\ [](\A p \in Procs : NameGiven(call[p]) => NeverConsulted(call[p]))

\* C14 amended: model selection with a forced model name that is not the empty
\* string returns exactly that model with role 'full' when it is registered and
\* active, fails with model not available when it is absent or inactive, and
\* never consults the mapping or the default.
C14_ForcedModel ==
    /\ [][\A p \in Procs :
            (SelectionAnswered(p) /\ NameGivenNonEmpty(call[p])) => SelectsNamed(p)]_vars
    /\ [](\A p \in Procs : NameGivenNonEmpty(call[p]) => NeverConsulted(call[p]))

\* a forced active model was selected alone with role 'full' and its embedding
\* is being written
C14_Witness ==
    \E p \in Procs :
        /\ call[p].op = "generate_for_node"
        /\ call[p].model_name = Some("jina")
        /\ call[p].pc = "write"
        /\ Len(call[p].models) = 1
        /\ call[p].models[1].model_name = "jina"
        /\ call[p].models[1].source_part = "full"
        /\ call[p].log[Len(call[p].log)].stmt = "select_model"

\* C15: a list_models call that was answered returns exactly the active models,
\* each once, the default models first and within each group in alphabetical
\* order of the model name.
C15_ListsActiveModelsOnly ==
    \A p \in Procs :
        (call[p].op = "list_models" /\ call[p].pc = "done" /\ call[p].response.status = 200)
        => LET body == call[p].response.body
           IN /\ \A k \in 1..Len(body) : body[k].is_active
              /\ \A m \in embedding_models : m.is_active =>
                    Cardinality({k \in 1..Len(body) : body[k].model_name = m.model_name}) = 1
              /\ \A j, k \in 1..Len(body) : j < k =>
                    \/ body[j].is_default /\ ~body[k].is_default
                    \/ /\ body[j].is_default = body[k].is_default
                       /\ NameRank(body[j].model_name) < NameRank(body[k].model_name)

\* the call selected models and none of its statements but index maintenance failed
EveryWriteSucceeded(c) ==
    /\ c.op = "generate_for_node"
    /\ c.pc = "done"
    /\ Len(c.models) > 0
    /\ \A k \in 1..Len(c.log) : c.log[k].stmt # "create_hnsw_indexes" => c.log[k].ok

\* the records the store holds for a node
RecordsOf(rows, node_id) == {r \in rows : r.node_id = node_id}

\* C16: a finished generate_for_node call with n selected (model, role) pairs in
\* which every store-write succeeded has made exactly n writes, one after
\* another in selector order, and returns 200 with exactly n summaries in that
\* order, the i-th naming the node, the i-th model and role and that model's
\* registered dimension; and when the node's type has no mapping, the single
\* default model has dimension 8 and the node has no record yet, the write
\* leaves exactly one record for the node, with dimension 8 and role 'full'.
C16_AllModelsStoredInOrder ==
    /\ [](\A p \in Procs : EveryWriteSucceeded(call[p]) =>
            LET c == call[p]
                body == c.response.body
            IN /\ c.response.status = 200
               /\ InsertsTried(c) = Len(c.models)
               /\ Len(body) = Len(c.models)
               /\ \A k \in 1..Len(body) :
                    /\ body[k].node_id = c.node_id
                    /\ body[k].model_name = c.models[k].model_name
                    /\ body[k].source_part = c.models[k].source_part
                    /\ body[k].dimension \in RegisteredDimensions(c.models[k].model_name)
               /\ \A j, k \in 1..Len(body) : j < k => body[j].generated_at < body[k].generated_at)
    /\ [][\A p \in Procs :
            (/\ Commits(p)
             /\ call'[p].op = "generate_for_node"
             /\ NotForced(call[p])
             /\ ActiveMapped(call[p].node.val.type) = {}
             /\ \E m \in embedding_models :
                    /\ m.dimension = 8
                    /\ {q \in embedding_models : q.is_default} = {m}
             /\ RecordsOf(node_embeddings, call[p].node_id) = {})
            => /\ Len(call'[p].models) = 1
               /\ Cardinality(RecordsOf(node_embeddings', call[p].node_id)) = 1
               /\ \A r \in RecordsOf(node_embeddings', call[p].node_id) :
                    /\ r.dimension = 8
                    /\ Len(r.embedding) = 8
                    /\ r.source_part = "full"
                    /\ Returning(r) = call'[p].row.val
         ]_vars

\* a call for a node of a type mapped to two active models has returned two
\* summaries, the higher-priority model first, both records in the store
C16_Witness ==
    \E p \in Procs :
        /\ EveryWriteSucceeded(call[p])
        /\ Len(call[p].models) = 2
        /\ call[p].response.status = 200
        /\ Len(call[p].response.body) = 2
        /\ call[p].response.body[1].model_name = "jina"
        /\ call[p].response.body[2].model_name = "siglip"
        /\ call[p].response.body[2].dimension = 3
        /\ \A k \in 1..2 : \E r \in node_embeddings : Returning(r) = call[p].response.body[k]

\* a call for a node of an unmapped type has returned the one summary of the
\* default model of dimension 8, and its record is the only one of the node
C16_DefaultOfDimension8 ==
    \E p \in Procs :
        /\ EveryWriteSucceeded(call[p])
        /\ call[p].response.status = 200
        /\ Len(call[p].response.body) = 1
        /\ call[p].response.body[1].dimension = 8
        /\ call[p].response.body[1].source_part = "full"
        /\ Cardinality(RecordsOf(node_embeddings, call[p].node_id)) = 1

----------------------------------------------------------------------------
(* Further properties of POST /search *)

\* the request returned a result list, and the query that produced it
Answered == search.pc = "done" /\ search.response.status = 200 /\ Len(QueriesSent) > 0

AnsweredBy == QueriesSent[Len(QueriesSent)].stmt

\* the rows the combined ranking function may have delivered to this request
FusedRows ==
    LET r == search.request.val
        v == _vector_literal(QueryVector(r, search.model.val))
    IN IF r.mode = "chunk"
       THEN HybridChunkAnswers(r.query, v, r.model_name, r.alpha, r.limit, r.language)
       ELSE HybridAnswers(r.query, v, r.model_name, r.alpha, r.limit, r.node_types)

\* C17: every result of a request answered by a lexical query (asked for
\* directly or reached by fallback, node or chunk mode) has a lexical score and
\* neither a vector nor a fused score; every result of a request answered by the
\* vector path carries the lexical, vector and fused score of the row the
\* combined ranking function delivered for it.
C17_ScoresFollowThePath ==
    Answered =>
        LET body == search.response.body
        IN IF AnsweredBy \in {"paradedb", "tsvector", "search_chunks"}
           THEN \A k \in 1..Len(body) :
                    /\ ~body[k].bm25_score.none
                    /\ body[k].vector_score.none
                    /\ body[k].hybrid_score.none
           ELSE /\ AnsweredBy \in {"hybrid_search", "hybrid_search_chunks"}
                /\ \E rows \in FusedRows :
                    /\ Len(rows) = Len(body)
                    /\ \A k \in 1..Len(body) :
                        /\ body[k].node_id = rows[k].node_id
                        /\ body[k].bm25_score = Some(rows[k].bm25_score)
                        /\ body[k].vector_score = Some(rows[k].vector_score)
                        /\ body[k].hybrid_score = Some(rows[k].hybrid_score)

\* the vector query failed and the fallback engine of the lexical path answered
\* with three results that carry a lexical score only
C17_Witness ==
    /\ Answered
    /\ VectorPathFailed
    /\ AnsweredBy = "tsvector"
    /\ Len(search.response.body) = 3
    /\ \A k \in 1..3 :
            /\ ~search.response.body[k].bm25_score.none
            /\ search.response.body[k].vector_score.none

\* the vector path answered with three results that carry all three scores
C17_FusedReached ==
    /\ Answered
    /\ AnsweredBy = "hybrid_search"
    /\ Len(search.response.body) = 3
    /\ \A k \in 1..3 : ~search.response.body[k].hybrid_score.none

\* the nodes a lexical query for the request has to find
Matching(request) ==
    {n \in nodes :
        /\ \E k \in 1..Len(Doc(n)) : <<Doc(n)[k]>> = request.query
        /\ \/ request.node_types.none
           \/ \E k \in 1..Len(request.node_types.val) : request.node_types.val[k] = n.type}

\* the positions of the log that hold a statement of the given name
Positions(name) == {k \in 1..Len(search.log) : search.log[k].stmt = name}

\* C18: node-level lexical search sends the primary query first and at most
\* once; the fallback query is sent at most once, only directly after the
\* primary query raised an error, and with the same query, category filter and
\* limit, and every such error is followed by it; whichever engine answers, each
\* result is (node_id, node_type, title, lexical score) of a node that matches
\* the query and the filter, the results are in descending score order, and
\* they are as many as match, capped at limit.
C18_LexicalEngineFallback ==
    /\ Cardinality(Positions("paradedb")) <= 1
    /\ Cardinality(Positions("tsvector")) <= 1
    /\ \A k \in Positions("tsvector") :
            /\ k > 1
            /\ search.log[k - 1].stmt = "paradedb"
            /\ search.log[k - 1].exc \in {"PostgresError", "TimeoutError"}
            /\ search.log[k].args = search.log[k - 1].args
    /\ \A k \in Positions("paradedb") :
            /\ search.log[k].args = <<search.request.val.query, search.request.val.node_types,
                                      search.request.val.limit>>
            /\ search.log[k].exc \in {"PostgresError", "TimeoutError"} =>
                    IF k = Len(search.log) THEN search.pc = "tsvector"
                    ELSE search.log[k + 1].stmt = "tsvector"
    /\ (Answered /\ AnsweredBy \in {"paradedb", "tsvector"}) =>
            LET body == search.response.body
                request == search.request.val
                found == Cardinality(Matching(request))
            IN /\ Len(body) = (IF found < request.limit THEN found ELSE request.limit)
               /\ \A k \in 1..Len(body) :
                    /\ \E n \in Matching(request) :
                            /\ body[k].node_id = n.id
                            /\ body[k].node_type = Some(n.type)
                            /\ body[k].title = n.title
                    /\ ~body[k].bm25_score.none
                    /\ body[k].chunk_id.none /\ body[k].content.none
               /\ \A j, k \in 1..Len(body) :
                    j < k => /\ body[j].bm25_score.val >= body[k].bm25_score.val
                             /\ body[j].node_id # body[k].node_id

\* the primary engine failed and the fallback engine answered a request with a
\* category filter: one result, the limit, of the two nodes that match
C18_Witness ==
    /\ Answered
    /\ AnsweredBy = "tsvector"
    /\ ~search.request.val.node_types.none
    /\ search.request.val.limit = 1
    /\ Cardinality(Matching(search.request.val)) = 2
    /\ Len(search.response.body) = 1

\* the statements of the vector path and of the lexical path
SubCalls ==
    {"select_model", "hybrid_search", "hybrid_search_chunks", "paradedb", "tsvector",
     "search_chunks"}

\* C19: when a search request is cancelled while a statement of its vector or
\* lexical path is in flight, that statement is the last the request sends (no
\* lexical query after a cancelled vector query, no record-access call), and the
\* request ends with no response and no result list.
C19_CancellationYieldsNoResult ==
    \A k \in 1..Len(search.log) :
        (search.log[k].stmt \in SubCalls /\ search.log[k].exc = "CancelledError")
        => /\ k = Len(search.log)
           /\ search.pc = "cancelled"
           /\ search.response = NoResponse

\* a request that asked for vector search was cancelled during the vector query
C19_Witness ==
    /\ search.pc = "cancelled"
    /\ VectorRequested(search.request.val)
    /\ Len(search.log) = 2
    /\ search.log[2].stmt = "hybrid_search"
    /\ search.log[2].exc = "CancelledError"
    /\ Cardinality(Matching(search.request.val)) = 3

----------------------------------------------------------------------------
(* Timeouts *)

\* a statement other than the non-fatal index maintenance timed out
TimedOut(log) ==
    \E k \in 1..Len(log) :
        log[k].exc = "TimeoutError" /\ log[k].stmt \notin {"create_hnsw_indexes", "track_node_access"}

\* C20: a finished request in which a database call of the vector or lexical
\* path, of generate_for_node or of store_embedding timed out has surfaced an
\* error to its caller, and that error is neither Invalid (400) nor NotFound (404).
C20_TimeoutSurfaced ==
    /\ \A p \in Procs :
            (call[p].pc = "done" /\ TimedOut(call[p].log))
            => call[p].response.status \notin {200, 400, 404}
    /\ (search.pc = "done" /\ TimedOut(search.log))
            => search.response.status \notin {200, 400, 404}

----------------------------------------------------------------------------
(* Properties of chunk-mode search *)

\* C21: every chunk-mode request that either path answers returns only chunks of
\* nodes that pass the caller's category filter and, context being requested,
\* every result carries the context_before and context_after of the caller's
\* context radius.
C21_ChunkPathsAlike ==
    (Answered /\ search.request.val.mode = "chunk") =>
        LET r == search.request.val
            body == search.response.body
        IN \A k \in 1..Len(body) :
              /\ \E n \in nodes : n.id = body[k].node_id /\ TypeFilter(n, r.node_types)
              /\ r.include_context =>
                    \E c \in Chunks :
                        /\ body[k].chunk_id = Some(c.chunk_id)
                        /\ ~body[k].context_before.none
                        /\ ~body[k].context_after.none
                        /\ body[k].context_before.val = ContextOf(c, r.context_size, -1)
                        /\ body[k].context_after.val = ContextOf(c, r.context_size, 1)

----------------------------------------------------------------------------
(* Properties of the pure helpers *)

\* the value (n mod 2000)/1000 - 1 for some integer n, which lies within [-1, 1]
UnitForm(v) ==
    /\ \E n \in 0..1999 : v = n * 10000 - 10000000
    /\ v >= -10000000 /\ v <= 10000000

\* C22: for every content and dimension d each copy of the deterministic
\* embedder returns exactly d components, each of the form (n mod 2000)/1000 - 1
\* and so within [-1, 1], and the copy of search.py returns the vector the copy
\* of the embedding service returns.
C22_DeterministicEmbedder ==
    helper.op = "embed" =>
        /\ \A out \in {helper.service, helper.search} :
              ~out.none =>
                  /\ Len(out.val) = helper.dimension
                  /\ \A i \in 1..Len(out.val) : UnitForm(out.val[i])
        /\ (~helper.service.none /\ ~helper.search.none)
              => helper.search.val = helper.service.val

\* both copies have embedded a two-character text at the largest dimension, and
\* the components are not all the same
C22_Witness ==
    /\ helper.op = "embed"
    /\ ~helper.service.none /\ ~helper.search.none
    /\ Len(helper.content) = 2
    /\ helper.dimension = MaxDim
    /\ Len(helper.search.val) = MaxDim
    /\ helper.search.val[1] # helper.search.val[2]

\* the two triples differ in exactly one of content, model name and role
DifferInOne(s, t) == Cardinality({k \in 1..3 : s[k] # t[k]}) = 1

\* C23: equal (content, model name, role) triples have equal hashes, and two
\* triples that differ in exactly one component have different digest inputs.
C23_HashOfTriple ==
    (helper.op = "hash" /\ ~helper.hash_first.none /\ ~helper.hash_second.none) =>
        /\ helper.first = helper.second => helper.hash_first = helper.hash_second
        /\ DifferInOne(helper.first, helper.second) => helper.hash_first # helper.hash_second

\* two triples whose content holds the separator and that differ in the role
\* only have been hashed
C23_Witness ==
    /\ helper.op = "hash"
    /\ ~helper.hash_first.none /\ ~helper.hash_second.none
    /\ helper.first[1] = <<"a", "|">>
    /\ helper.first[1] = helper.second[1]
    /\ helper.first[2] = "j|s" /\ helper.second[2] = "j|s"
    /\ helper.first[3] = "full" /\ helper.second[3] = "title"
    /\ helper.hash_first.val # helper.hash_second.val

----------------------------------------------------------------------------
(* Properties of node deletion *)

\* the ids of the nodes in the store
NodeIds == {n.id : n \in nodes}

\* the step in which a node request of this kind is served
Serves(op) == fetch' # fetch /\ fetch'.op = op /\ Len(fetch'.log) = 1

\* C24: a delete answered 200 removes its node; an id that is not in the store
\* enters it by a successful create_node only; every get that the store answers
\* for an id not in the store returns 404; and a delete of an id not in the
\* store returns 404 and leaves nodes and embeddings as they are.
C24_DeletedStaysGone ==
    [][/\ (Serves("delete_node") /\ fetch'.response.status = 200)
            => fetch'.node_id \in NodeIds /\ fetch'.node_id \notin NodeIds'
       /\ \A id \in NodeIds' \ NodeIds :
            /\ fetch'.op = "create_node"
            /\ fetch'.response.status = 200
            /\ fetch'.node_id = id
       /\ ((Serves("get_node") \/ Serves("update_node"))
             /\ fetch'.log[1].stmt = "select_node" /\ fetch'.log[1].ok
             /\ fetch'.node_id \notin NodeIds)
            => fetch'.response = NotFound("Node not found")
       /\ (Serves("delete_node") /\ fetch'.log[1].ok /\ fetch'.node_id \notin NodeIds)
            => /\ fetch'.response = NotFound("Node not found")
               /\ nodes' = nodes
               /\ node_embeddings' = node_embeddings
      ]_vars

\* node n1 was deleted, another node was created since, and a get of n1 was
\* answered 404
C24_Witness ==
    /\ "n1" \notin NodeIds
    /\ "m2" \in NodeIds
    /\ fetch.op = "get_node"
    /\ fetch.node_id = "n1"
    /\ fetch.log[1].ok
    /\ fetch.response.status = 404

----------------------------------------------------------------------------
(* Properties of the search orchestrator *)

\* the positions of the log that hold a statement of the vector path
VectorPathCalls ==
    Positions("select_model") \cup Positions("hybrid_search") \cup Positions("hybrid_search_chunks")

\* the positions of the log at which the lexical path was entered
LexicalPathStarts == Positions("paradedb") \cup Positions("search_chunks")

\* the positions of the log that hold a statement of the lexical path
LexicalPathCalls == LexicalPathStarts \cup Positions("tsvector")

\* START -> {LEXICAL_ONLY | VECTOR_ATTEMPT} -> RESULT for a request that did or
\* did not ask for vector search
OrchestratorFlow(requested) ==
    /\ ~requested => VectorPathCalls = {}
    /\ requested =>
          \/ search.pc = "model_info" /\ search.log = <<>>
          \/ /\ Positions("select_model") = {1}
             /\ VectorPathCalls \subseteq {1, 2}
             /\ 2 \in VectorPathCalls => search.log[1].ok /\ ~search.model.none
    /\ \A v \in VectorPathCalls : \A l \in LexicalPathCalls : v < l
    /\ Cardinality(LexicalPathStarts) <= 1
    /\ \A k \in LexicalPathStarts :
          requested =>
              /\ k - 1 \in VectorPathCalls
              /\ search.log[k - 1].ok
                    => search.log[k - 1].stmt = "select_model" /\ search.model.none

\* C25 as stated: the flow, vector search being requested when use_vector is set
\* or a query vector, of any length, is supplied.
C25_FlowAnySuppliedVector ==
    ~search.request.none =>
        OrchestratorFlow(\/ search.request.val.use_vector
                         \/ ~search.request.val.query_embedding.none)

\* C25 amended: without use_vector and without a non-empty query vector the
\* request makes no model lookup and no vector call; with either, the vector path
\* is tried exactly once, model lookup first, before any lexical call; the
\* lexical path is entered at most once, and in a request that asked for vector
\* search only directly after the vector path failed.
C25_OrchestratorFlow ==
    ~search.request.none =>
        OrchestratorFlow(\/ search.request.val.use_vector
                         \/ /\ ~search.request.val.query_embedding.none
                            /\ search.request.val.query_embedding.val # <<>>)

\* a request that set no flag but supplied a vector of two components tried the
\* vector path, whose query failed, and was then answered by the lexical path
C25_Witness ==
    /\ search.pc = "done"
    /\ ~search.request.val.use_vector
    /\ search.request.val.query_embedding = Some(<<16, 0>>)
    /\ Len(search.log) >= 3
    /\ search.log[1].stmt = "select_model"
    /\ search.log[2].stmt = "hybrid_search" /\ ~search.log[2].ok
    /\ search.log[3].stmt = "paradedb" /\ search.log[3].ok
    /\ search.response.status = 200

\* the positions of the log that hold a vector query
VectorQueries == Positions("hybrid_search") \cup Positions("hybrid_search_chunks")

\* the literal of the vector the fallback embedder synthesizes for the query at
\* the dimension the registry holds for the model the request names
SynthesizedLiteral ==
    LET r == search.request.val
        m == CHOOSE x \in embedding_models : x.model_name = r.model_name
    IN _vector_literal(search_deterministic_embedding(r.query, m.dimension))

\* C26 as stated: every vector query carries the caller's query vector whenever
\* the caller supplied one, the empty list included, and the synthesized vector
\* only when the caller supplied none.
C26_SuppliedVectorAnyLength ==
    \A k \in VectorQueries :
        search.log[k].args[2] =
            IF ~search.request.val.query_embedding.none
            THEN _vector_literal(search.request.val.query_embedding.val)
            ELSE SynthesizedLiteral

\* C26 amended: every vector query carries the caller's query vector whenever the
\* caller supplied a non-empty one, and otherwise (none, or the empty list) the
\* vector synthesized at the registered dimension of the resolved model.
C26_SuppliedVectorTakesPrecedence ==
    \A k \in VectorQueries :
        LET q == search.request.val.query_embedding
        IN IF ~q.none /\ q.val # <<>>
           THEN search.log[k].args[2] = _vector_literal(q.val)
           ELSE /\ search.log[k].args[2] = SynthesizedLiteral
                /\ Len(search.log[k].args[2]) = search.model.val.dimension
                /\ search.model.val \in embedding_models

\* a chunk-mode request that set use_vector and supplied the empty list was
\* answered by the vector path, which was sent a synthesized vector of the
\* model's two dimensions
C26_Witness ==
    /\ search.pc = "done"
    /\ search.request.val.use_vector
    /\ search.request.val.query_embedding = Some(<<>>)
    /\ Len(search.log) >= 2
    /\ search.log[2].stmt = "hybrid_search_chunks" /\ search.log[2].ok
    /\ Len(search.log[2].args[2]) = 2
    /\ search.response.status = 200

----------------------------------------------------------------------------
(* Properties of the selected models and of the embedded content *)

\* the registry holds an active model of this name
RegisteredAndActive(model_name) ==
    \E m \in embedding_models : m.model_name = model_name /\ m.is_active

\* C27: every (model, role) entry that model selection hands to generate_for_node,
\* on whichever branch, names a model that is registered and active, and every
\* embedding generate_for_node has written belongs to such a model.
C27_SelectedModelsActive ==
    /\ \A p \in Procs : \A k \in 1..Len(call[p].models) :
            RegisteredAndActive(call[p].models[k].model_name)
    /\ \A r \in node_embeddings : RegisteredAndActive(r.model_name)

\* C28: once the vector query of a request has been answered with zero rows the
\* request is over with the empty list as its result, and no lexical query was
\* sent.
C28_EmptyVectorResultIsFinal ==
    ((\E k \in VectorQueries : search.log[k].ok) /\ search.results = <<>>)
        => /\ search.pc = "done"
           /\ search.response = Ok(<<>>)
           /\ LexicalPathCalls = {}

\* a node-mode request whose query the lexical path matches was answered by the
\* vector path with zero rows
C28_Witness ==
    /\ search.pc = "done"
    /\ search.request.val.mode = "node"
    /\ Len(search.log) = 2
    /\ search.log[2].stmt = "hybrid_search" /\ search.log[2].ok
    /\ search.response = Ok(<<>>)
    /\ Len(BM25Results(ParadeRows(search.request.val.query, search.request.val.node_types,
                                  search.request.val.limit))) > 0

\* C29: whenever generate_for_node is about to write the embedding of a selected
\* (model, role) pair, the content it hashes and embeds for the pair is a
\* non-empty string.
C29_EmbeddedContentNonEmpty ==
    \A p \in Procs :
        (call[p].op = "generate_for_node" /\ call[p].pc = "write")
            => /\ ~LoopContent(call[p]).none
               /\ Len(LoopContent(call[p]).val) > 0

\* C30: a chunk-mode lexical query that raised an error is followed by a
\* lower-fidelity query, as the primary node-mode query is by the tsvector
\* query, and the request does not end in an error because of it.
C30_ChunkLexicalFallback ==
    \A k \in Positions("search_chunks") :
        search.log[k].exc \in {"PostgresError", "TimeoutError"}
            => /\ k < Len(search.log) \/ search.pc # "done"
               /\ search.pc = "done" => search.response.status # 500

====
